---- MODULE Spec2Model ----
(***************************************************************************)
(* A model of pychemqt's thermodynamic-state layer:                        *)
(*   - lib/thermo.py: Thermo.derivative (Bridgman tables), the property    *)
(*     catalogs of Thermo / ThermoWater / ThermoAdvanced / ThermoRefProp,   *)
(*     and writeStatetoJSON / readStatefromJSON;                           *)
(*   - tools/UI_Tables/lib.py: getMethod, getClassFluid, calcPoint;        *)
(*   - lib/mEoS/R11.py, lib/mEoS/SF6.py: the validity windows of the       *)
(*     equation records and the melting curve.                             *)
(*                                                                         *)
(* Numbers are exact rationals [n, d] where the code divides floats, and   *)
(* integers elsewhere.                                                     *)
(***************************************************************************)
EXTENDS Integers, Sequences, FiniteSets, TLC

VARIABLES
    \* ---- Thermo.derivative ----
    fase,       \* the phase the derivative is taken on (v, alfav, kappa, cp, s) with self.P, self.T
    dCall,      \* the arguments (z, x, y) of the call of derivative, or NoCall
    dResult,    \* what the call gave: a value or ZeroDivisionError
    \* ---- the property catalogs (class methods of Thermo and its subclasses) ----
    cls,        \* the class the class methods are called on
    done,       \* the class methods called so far
    catalog,    \* what cls.properties() returned
    names,      \* what cls.propertiesName() returned
    keys,       \* what cls.propertiesKey() returned
    units,      \* what cls.propertiesUnit() returned
    unitOf,     \* what cls._dictUnit() returned
    globalKeys, \* what cls.propertiesGlobal() returned
    phaseKeys,  \* what cls.propertiesPhase() returned
    \* ---- writeStatetoJSON / readStatefromJSON ----
    jclass,     \* the class of the phase objects
    phase,      \* the phase object that is written: _bool and its attributes
    state,      \* the dict writeStatetoJSON fills: state[fase] = fluid
    fluid,      \* the dict of the phase as loaded again (an older file lacks keys)
    restored,   \* the object readStatefromJSON is called on
    given,      \* the dict the last call of readStatefromJSON was given
    readExc,    \* the exception that call ended with, "" for none
    jpc         \* "computed", "written", "loaded"

\* getClassFluid / calcPoint: the preferences file, the configuration, the
\* base instance, the keyword inputs of the call, what the call came to, and
\* the position of the caller
VARIABLES pref, conf, instance, kwargs, outcome, cpc

\* SimpleEq: the arguments of the call and what it gave
VARIABLES seArgs, seResult

\* the coefficient records and ideal-gas sets read so far, by fluid and name
VARIABLES tables

\* a Thermo object, and a log of its calls: how many, how many ran calculo, and the inputs given so far
VARIABLES obj, thLog

\* spreadsheetColumn: the index of the call and the code it returned
VARIABLES colIndex, letters

\* the sphere drag correlations: the one called, its Reynolds number, its optional flag and what the call gave
VARIABLES correlation, Re, dragFlag, Cd

\* fillNone: the class of the bulk state, its x, Tr and Pr, the phase object given, and the position of the caller
VARIABLES fcls, bulk, fnull, fpc

\* _getData: the arguments of the call, the row it returned, and the position of the caller
VARIABLES gdArgs, fila, gpc

derivVars == <<fase, dCall, dResult>>
catVars == <<cls, done, catalog, names, keys, units, unitOf, globalKeys, phaseKeys>>

jsonVars == <<jclass, phase, state, fluid, restored, given, readExc, jpc>>

calcVars == <<pref, conf, instance, kwargs, outcome, cpc>>
simpleVars == <<seArgs, seResult>>
recVars == <<tables>>
thermoVars == <<obj, thLog>>
colVars == <<colIndex, letters>>
dragVars == <<correlation, Re, dragFlag, Cd>>
fillVars == <<fcls, bulk, fnull, fpc>>
dataVars == <<gdArgs, fila, gpc>>
vars == <<derivVars, catVars, jsonVars, calcVars, simpleVars, recVars, thermoVars, colVars, dragVars, fillVars, dataVars>>

(***************************************************************************)
(* Exact rational arithmetic (python floats, without the rounding).        *)
(***************************************************************************)
Abs(i) == IF i < 0 THEN -i ELSE i

RECURSIVE Gcd(_, _)
Gcd(a, b) == IF b = 0 THEN a ELSE Gcd(b, a % b)

\* the rational n/d (d # 0) in lowest terms with a positive denominator
Rat(n, d) ==
    LET g == Gcd(Abs(n), Abs(d))
        sgn == IF d < 0 THEN -1 ELSE 1
    IN  [n |-> sgn * (n \div g), d |-> sgn * (d \div g)]

Q(i) == [n |-> i, d |-> 1]
RAdd(a, b) == Rat(a.n * b.d + b.n * a.d, a.d * b.d)
RSub(a, b) == Rat(a.n * b.d - b.n * a.d, a.d * b.d)
RMul(a, b) == Rat(a.n * b.n, a.d * b.d)
RNeg(a) == [n |-> -a.n, d |-> a.d]
\* b # 0
RDiv(a, b) == Rat(a.n * b.d, a.d * b.n)

(***************************************************************************)
(* Thermo.derivative(z, x, y, fase): src/lib/thermo.py 113-132             *)
(***************************************************************************)
DerivativeVars == {"P", "T", "v", "u", "h", "s", "g", "a"}

\* the table of partials at constant P, (dz/dT)_P
dT(z, f) ==
    CASE z = "P" -> Q(0)
      [] z = "T" -> Q(1)
      [] z = "v" -> RMul(f.v, f.alfav)
      [] z = "u" -> RSub(f.cp, RMul(RMul(f.P, f.v), f.alfav))
      [] z = "h" -> f.cp
      [] z = "s" -> RDiv(f.cp, f.T)
      [] z = "g" -> RNeg(f.s)
      [] z = "a" -> RSub(RMul(RMul(RNeg(f.P), f.v), f.alfav), f.s)

\* the table of partials at constant T, (dz/dP)_T
dP(z, f) ==
    CASE z = "P" -> Q(1)
      [] z = "T" -> Q(0)
      [] z = "v" -> RMul(RNeg(f.v), f.kappa)
      [] z = "u" -> RMul(f.v, RSub(RMul(f.P, f.kappa), RMul(f.T, f.alfav)))
      [] z = "h" -> RMul(f.v, RSub(Q(1), RMul(f.T, f.alfav)))
      [] z = "s" -> RMul(RNeg(f.v), f.alfav)
      [] z = "g" -> f.v
      [] z = "a" -> RMul(RMul(f.P, f.v), f.kappa)

ZeroDivisionError == [exc |-> "ZeroDivisionError", val |-> Q(0)]
Value(q) == [exc |-> "", val |-> q]

\* a plausible slip: the two products of the denominator added, not subtracted
derivativeDenominatorSum(z, x, y, f) ==
    LET num == RSub(RMul(dP(z, f), dT(y, f)), RMul(dT(z, f), dP(y, f)))
        den == RAdd(RMul(dP(x, f), dT(y, f)), RMul(dT(x, f), dP(y, f)))
    IN  IF den.n = 0 THEN ZeroDivisionError ELSE Value(RDiv(num, den))

\* a plausible slip: the two products of the numerator in the other order
derivativeNumeratorSwapped(z, x, y, f) ==
    LET num == RSub(RMul(dT(z, f), dP(y, f)), RMul(dP(z, f), dT(y, f)))
        den == RSub(RMul(dP(x, f), dT(y, f)), RMul(dT(x, f), dP(y, f)))
    IN  IF den.n = 0 THEN ZeroDivisionError ELSE Value(RDiv(num, den))

\* return (dP[z]*dT[y]-dT[z]*dP[y])/(dP[x]*dT[y]-dT[x]*dP[y])
derivative(z, x, y, f) ==
    LET num == RSub(RMul(dP(z, f), dT(y, f)), RMul(dT(z, f), dP(y, f)))
        den == RSub(RMul(dP(x, f), dT(y, f)), RMul(dT(x, f), dP(y, f)))
    IN  IF den.n = 0 THEN ZeroDivisionError ELSE Value(RDiv(num, den))

MaxDerivInput == 1

\* the states derivative is called on
FaseInputs ==
    [v : {Q(i) : i \in 1..MaxDerivInput},
     alfav : {Q(i) : i \in -1..MaxDerivInput},
     kappa : {Q(i) : i \in 0..MaxDerivInput},
     cp : {Q(1), Q(2)},
     s : {Q(-1), Q(1)},
     P : {Q(1), Q(2)},
     T : {Q(1), Q(2)}]

NoCall == [z |-> "", x |-> "", y |-> ""]
NoResult == [exc |-> "none", val |-> Q(0)]

\* no phase: derivative is not in use
IdleDerivative ==
    /\ fase = [v |-> Q(0), alfav |-> Q(0), kappa |-> Q(0), cp |-> Q(0), s |-> Q(0),
               P |-> Q(0), T |-> Q(0)]
    /\ dCall = NoCall
    /\ dResult = NoResult

StartDerivative ==
    /\ fase \in FaseInputs
    /\ dCall = NoCall
    /\ dResult = NoResult

CallDerivative ==
    /\ dCall = NoCall
    /\ fase \in FaseInputs
    /\ \E z \in DerivativeVars, x \in DerivativeVars, y \in DerivativeVars :
          /\ dCall' = [z |-> z, x |-> x, y |-> y]
          /\ dResult' = derivative(z, x, y, fase)
    /\ UNCHANGED fase
    /\ UNCHANGED <<catVars, jsonVars, calcVars, simpleVars, recVars, thermoVars, colVars, dragVars, fillVars, dataVars>>

(***************************************************************************)
(* The property catalogs: src/lib/thermo.py 162-325, 486-496, 515-568,     *)
(* 631-710.  An entry is <<name, key, unit>>; tr() is taken as returning    *)
(* its source text.                                                        *)
(***************************************************************************)
Classes == {"Thermo", "ThermoWater", "ThermoAdvanced", "ThermoRefProp"}

\* the list l of Thermo.properties
ThermoList ==
    <<
       <<"Temperature", "T", "Temperature">>,
       <<"Reduced temperature", "Tr", "Dimensionless">>,
       <<"Pressure", "P", "Pressure">>,
       <<"Reduced Pressure", "Pr", "Dimensionless">>,
       <<"Quality", "x", "Dimensionless">>,
       <<"Density", "rho", "Density">>,
       <<"Molar Density", "rhoM", "MolarDensity">>,
       <<"Volume", "v", "SpecificVolume">>,
       <<"Enthalpy", "h", "Enthalpy">>,
       <<"Molar Enthalpy", "hM", "MolarEnthalpy">>,
       <<"Entropy", "s", "SpecificHeat">>,
       <<"Molar Entropy", "sM", "MolarSpecificHeat">>,
       <<"Internal Energy", "u", "Enthalpy">>,
       <<"Molar Internal Energy", "uM", "MolarEnthalpy">>,
       <<"Helmholtz Free Energy", "a", "Enthalpy">>,
       <<"Molar Helmholtz Free Energy", "aM", "MolarEnthalpy">>,
       <<"Gibbs Free Energy", "g", "Enthalpy">>,
       <<"Molar Gibbs Free Energy", "gM", "MolarEnthalpy">>,
       <<"Specific isochoric heat capacity", "cv", "SpecificHeat">>,
       <<"Molar Specific isochoric heat capacity", "cvM", "MolarSpecificHeat">>,
       <<"Specific isobaric heat capacity", "cp", "SpecificHeat">>,
       <<"Molar Specific isobaric heat capacity", "cpM", "MolarSpecificHeat">>,
       <<"Heat capacities ratio", "cp_cv", "Dimensionless">>,
       <<"Speed sound", "w", "Speed">>,
       <<"Compresibility", "Z", "Dimensionless">>,
       <<"Fugacity coefficient", "fi", "Dimensionless">>,
       <<"Fugacity", "f", "Pressure">>,
       <<"Isoentropic exponent", "gamma", "Dimensionless">>,
       <<"Volume Expansivity", "alfav", "InvTemperature">>,
       <<"Isothermal compresibility", "kappa", "InvPressure">>,
       <<"Adiabatic compresibility", "kappas", "InvPressure">>,
       <<"Relative pressure coefficient", "alfap", "InvTemperature">>,
       <<"Isothermal stress coefficient", "betap", "Density">>,
       <<"Joule-Thomson coefficient", "joule", "TemperaturePressure">>,
       <<"Isothermal throttling coefficient", "deltat", "EnthalpyPressure">>,
       <<"Vaporization heat", "Hvap", "Enthalpy">>,
       <<"Vaporization entropy", "Svap", "SpecificHeat">>,
       <<"Viscosity", "mu", "Viscosity">>,
       <<"Thermal conductivity", "k", "ThermalConductivity">>,
       <<"Kinematic viscosity", "nu", "Diffusivity">>,
       <<"Thermal diffusivity", "alfa", "Diffusivity">>,
       <<"Surface tension", "sigma", "Tension">>,
       <<"Prandtl number", "Prandt", "Dimensionless">>,
       <<"Ideal gas Specific volume", "v0", "SpecificVolume">>,
       <<"Ideal gas Density", "rho0", "Density">>,
       <<"Ideal gas Specific enthalpy", "h0", "Enthalpy">>,
       <<"Ideal gas Specific internal energy", "u0", "Enthalpy">>,
       <<"Ideal gas Specific entropy", "s0", "SpecificHeat">>,
       <<"Ideal gas Specific Helmholtz free energy", "a0", "Enthalpy">>,
       <<"Ideal gas Specific Gibbs free energy", "g0", "Enthalpy">>,
       <<"Ideal gas Specific isobaric heat capacity", "cp0", "SpecificHeat">>,
       <<"Ideal gas Specific isochoric heat capacity", "cv0", "SpecificHeat">>,
       <<"Ideal gas heat capacities ratio", "cp0_cv", "Dimensionless">>,
       <<"Ideal gas Isoentropic exponent", "gamma0", "Dimensionless">>
    >>

\* the list l of ThermoWater.properties
ThermoWaterList ==
    <<
       <<"Dielectric constant", "epsilon", "Dimensionless">>,
       <<"Refractive index", "n", "Dimensionless">>
    >>

\* the list l of ThermoAdvanced.properties
ThermoAdvancedList ==
    <<
       <<"Isentropic temperature-pressure", "betas", "TemperaturePressure">>,
       <<"Gruneisen parameter", "Gruneisen", "Dimensionless">>,
       <<"2nd virial coefficient", "virialB", "SpecificVolume">>,
       <<"3er virial coefficient", "virialC", "SpecificVolume_square">>,
       <<"(dp/dT)_rho", "dpdT_rho", "PressureTemperature">>,
       <<"(dp/drho)_T", "dpdrho_T", "PressureDensity">>,
       <<"(drho/dT)_P", "drhodT_P", "DensityTemperature">>,
       <<"(drho/dP)_T", "drhodP_T", "DensityPressure">>,
       <<"(dh/dT)_rho", "dhdT_rho", "SpecificHeat">>,
       <<"(dh/dP)_T", "dhdP_T", "EnthalpyPressure">>,
       <<"(dh/dT)_P", "dhdT_P", "SpecificHeat">>,
       <<"(dh/drho)_T", "dhdrho_T", "EnthalpyDensity">>,
       <<"(dh/dP)_rho", "dhdP_rho", "EnthalpyPressure">>,
       <<"Isothermal expansion coefficient", "kt", "Dimensionless">>,
       <<"Isentropic expansion coefficient", "ks", "Dimensionless">>,
       <<"Adiabatic bulk modulus", "Ks", "Pressure">>,
       <<"Isothermal bulk modulus", "Kt", "Pressure">>,
       <<"Internal pressure", "IntP", "Pressure">>,
       <<"Negative reciprocal temperature", "invT", "InvTemperature">>,
       <<"Specific heat input", "hInput", "Enthalpy">>,
       <<"Dielectric constant", "epsilon", "Dimensionless">>
    >>

\* the list l of ThermoRefProp.properties
ThermoRefPropList ==
    <<
       <<"Ideal Pressure", "P0", "Pressure">>,
       <<"Residual Pressure", "P_Pideal", "Pressure">>,
       <<"K value", "K", "Dimensionless">>,
       <<"Heat Capacity along the saturation line", "csat", "SpecificHeat">>,
       <<"dP/dT [sat]", "dpdt_sat", "PressureTemperature">>,
       <<"Cv two phases", "cv2p", "SpecificHeat">>,
       <<"Excess volume", "vE", "SpecificVolume">>,
       <<"Excess internal energy", "uE", "Enthalpy">>,
       <<"Excess enthalpy", "hE", "Enthalpy">>,
       <<"Excess entropy", "sE", "SpecificHeat">>,
       <<"Excess Helmholtz energy", "aE", "Enthalpy">>,
       <<"Excess Gibbs energy", "gE", "Enthalpy">>,
       <<"Residual pressure", "pr", "SpecificVolume">>,
       <<"Residual internal energy", "ur", "Enthalpy">>,
       <<"Residual enthalpy", "hr", "Enthalpy">>,
       <<"Residual entropy", "sr", "SpecificHeat">>,
       <<"Residual Helmholtz energy", "ar", "Enthalpy">>,
       <<"Residual Gibbs energy", "gr", "Enthalpy">>,
       <<"Residual isobaric heat capacity", "cpr", "SpecificHeat">>,
       <<"Residual isochoric heat capacity", "cvr", "SpecificHeat">>,
       <<"Supercompressibility factor", "fpv", "Dimensionless">>,
       <<"Chemical potential", "chempot", "Enthalpy">>,
       <<"Fourth virial coefficient", "virialD", "Dimensionless">>,
       <<"Second acoustic virial coefficient", "virialBa", "SpecificVolume">>,
       <<"Third acoustic virial coefficient", "virialCa", "SpecificVolume_square">>,
       <<"dC/dT", "dCdt", "Dimensionless">>,
       <<"d2C/dT2", "dCdt2", "Dimensionless">>,
       <<"dB/dT", "dBdt", "Dimensionless">>,
       <<"b12", "b12", "SpecificVolume">>,
       <<"Critical flow factor", "cstar", "Dimensionless">>
    >>


\* a plausible slip: an extension entry replaces the entry at the position
insertReplace(prop, i, p) ==
    LET n == Len(prop)
        j == IF i < 0 THEN (IF i + n < 0 THEN 0 ELSE i + n) ELSE (IF i > n THEN n ELSE i)
    IN  SubSeq(prop, 1, j) \o <<p>> \o SubSeq(prop, j + 2, n)

\* python's list.insert(i, p): before position i (0-based), negative i counted
\* from the end, out-of-range i clipped
insert(prop, i, p) ==
    LET n == Len(prop)
        j == IF i < 0 THEN (IF i + n < 0 THEN 0 ELSE i + n) ELSE (IF i > n THEN n ELSE i)
    IN  SubSeq(prop, 1, j) \o <<p>> \o SubSeq(prop, j + 1, n)

\* for p in l: prop.insert(i, p)
RECURSIVE insertEach(_, _, _)
insertEach(prop, l, i) ==
    IF l = <<>> THEN prop ELSE insertEach(insert(prop, i, Head(l)), Tail(l), i)

\* cls.properties()
properties(c) ==
    CASE c = "Thermo" -> ThermoList
      [] c = "ThermoWater" -> insertEach(ThermoList, ThermoWaterList, -11)
      [] c = "ThermoAdvanced" -> insertEach(ThermoList, ThermoAdvancedList, 34)
      [] c = "ThermoRefProp" ->
            insertEach(ThermoList, ThermoAdvancedList, 34) \o ThermoRefPropList

propertiesName(c) == LET l == properties(c) IN [i \in 1..Len(l) |-> l[i][1]]
propertiesKey(c) == LET l == properties(c) IN [i \in 1..Len(l) |-> l[i][2]]
propertiesUnit(c) == LET l == properties(c) IN [i \in 1..Len(l) |-> l[i][3]]

Range(q) == {q[i] : i \in 1..Len(q)}

\* d[key] = unit for every entry in order: the last entry of a key wins
_dictUnit(c) ==
    LET l == properties(c)
        last(k) == CHOOSE i \in 1..Len(l) :
                      l[i][2] = k /\ \A j \in (i + 1)..Len(l) : l[j][2] # k
    IN  [k \in {l[i][2] : i \in 1..Len(l)} |-> l[last(k)][3]]

ThermoGlobal ==
    <<"T", "Tr", "P", "Pr", "x", "Hvap", "Svap", "v0", "rho0", "h0",
      "u0", "s0", "a0", "g0", "cp0", "cv0", "cp0_cv", "gamma0">>

ThermoRefPropGlobal ==
    <<"P0", "P_Pideal", "K", "csat", "dpdt_sat", "cv2p", "vE", "uE",
      "hE", "sE", "aE", "gE", "pr", "ur", "hr", "sr", "ar", "gr",
      "cpr", "cvr", "fpv", "chempot", "b12", "cstar">>

\* a plausible slip: a global key that the catalog spells differently
propertiesGlobalMisspelt(c) ==
    CASE c \in {"Thermo", "ThermoWater"} -> ThermoGlobal
      [] c = "ThermoAdvanced" -> Append(ThermoGlobal, "invt")
      [] c = "ThermoRefProp" -> Append(ThermoGlobal, "invt") \o ThermoRefPropGlobal

\* cls.propertiesGlobal(); ThermoWater inherits Thermo's
propertiesGlobal(c) ==
    CASE c \in {"Thermo", "ThermoWater"} -> ThermoGlobal
      [] c = "ThermoAdvanced" -> Append(ThermoGlobal, "invT")
      [] c = "ThermoRefProp" -> Append(ThermoGlobal, "invT") \o ThermoRefPropGlobal

\* cls.propertiesPhase(): the keys of the catalog, in order, that are not global
propertiesPhase(c) ==
    LET single == propertiesGlobal(c)
    IN  SelectSeq(propertiesKey(c), LAMBDA p : p \notin Range(single))

IdleCatalog ==
    /\ cls = ""
    /\ done = {}
    /\ catalog = <<>>
    /\ names = <<>>
    /\ keys = <<>>
    /\ units = <<>>
    /\ unitOf = [k \in {} |-> ""]
    /\ globalKeys = <<>>
    /\ phaseKeys = <<>>

StartCatalog ==
    /\ cls \in Classes
    /\ done = {}
    /\ catalog = <<>>
    /\ names = <<>>
    /\ keys = <<>>
    /\ units = <<>>
    /\ unitOf = [k \in {} |-> ""]
    /\ globalKeys = <<>>
    /\ phaseKeys = <<>>

CallProperties ==
    /\ cls \in Classes
    /\ "properties" \notin done
    /\ catalog' = properties(cls)
    /\ done' = done \cup {"properties"}
    /\ UNCHANGED <<cls, names, keys, units, unitOf, globalKeys, phaseKeys>>
    /\ UNCHANGED <<derivVars, jsonVars, calcVars, simpleVars, recVars, thermoVars, colVars, dragVars, fillVars, dataVars>>

CallPropertiesName ==
    /\ cls \in Classes
    /\ "propertiesName" \notin done
    /\ names' = propertiesName(cls)
    /\ done' = done \cup {"propertiesName"}
    /\ UNCHANGED <<cls, catalog, keys, units, unitOf, globalKeys, phaseKeys>>
    /\ UNCHANGED <<derivVars, jsonVars, calcVars, simpleVars, recVars, thermoVars, colVars, dragVars, fillVars, dataVars>>

CallPropertiesKey ==
    /\ cls \in Classes
    /\ "propertiesKey" \notin done
    /\ keys' = propertiesKey(cls)
    /\ done' = done \cup {"propertiesKey"}
    /\ UNCHANGED <<cls, catalog, names, units, unitOf, globalKeys, phaseKeys>>
    /\ UNCHANGED <<derivVars, jsonVars, calcVars, simpleVars, recVars, thermoVars, colVars, dragVars, fillVars, dataVars>>

CallPropertiesUnit ==
    /\ cls \in Classes
    /\ "propertiesUnit" \notin done
    /\ units' = propertiesUnit(cls)
    /\ done' = done \cup {"propertiesUnit"}
    /\ UNCHANGED <<cls, catalog, names, keys, unitOf, globalKeys, phaseKeys>>
    /\ UNCHANGED <<derivVars, jsonVars, calcVars, simpleVars, recVars, thermoVars, colVars, dragVars, fillVars, dataVars>>

CallDictUnit ==
    /\ cls \in Classes
    /\ "_dictUnit" \notin done
    /\ unitOf' = _dictUnit(cls)
    /\ done' = done \cup {"_dictUnit"}
    /\ UNCHANGED <<cls, catalog, names, keys, units, globalKeys, phaseKeys>>
    /\ UNCHANGED <<derivVars, jsonVars, calcVars, simpleVars, recVars, thermoVars, colVars, dragVars, fillVars, dataVars>>

CallPropertiesGlobal ==
    /\ cls \in Classes
    /\ "propertiesGlobal" \notin done
    /\ globalKeys' = propertiesGlobal(cls)
    /\ done' = done \cup {"propertiesGlobal"}
    /\ UNCHANGED <<cls, catalog, names, keys, units, unitOf, phaseKeys>>
    /\ UNCHANGED <<derivVars, jsonVars, calcVars, simpleVars, recVars, thermoVars, colVars, dragVars, fillVars, dataVars>>

CallPropertiesPhase ==
    /\ cls \in Classes
    /\ "propertiesPhase" \notin done
    /\ phaseKeys' = propertiesPhase(cls)
    /\ done' = done \cup {"propertiesPhase"}
    /\ UNCHANGED <<cls, catalog, names, keys, units, unitOf, globalKeys>>
    /\ UNCHANGED <<derivVars, jsonVars, calcVars, simpleVars, recVars, thermoVars, colVars, dragVars, fillVars, dataVars>>

(***************************************************************************)
(* writeStatetoJSON / readStatefromJSON: src/lib/thermo.py 368-480,        *)
(* 498-508, 570-625, 712-730.  An attribute or dict entry is a value with   *)
(* its unidades class: [unit, list, val], val the numbers of a list or the  *)
(* one number of a scalar; unit "" is a plain python number.               *)
(***************************************************************************)
Unset == [unit |-> "<unset>", list |-> FALSE, val |-> <<>>]
\* unidades.X(value): the value tagged with the unit class X
Scalar(unit, q) == [unit |-> unit, list |-> FALSE, val |-> <<q>>]
List(unit, qs) == [unit |-> unit, list |-> TRUE, val |-> qs]

\* Thermo.writeStatetoJSON, lines 371-411: fluid[key] = self.attr, as <<key, attr>>
ThermoWrites ==
    <<
       <<"M", "M">>,
       <<"v", "v">>,
       <<"h", "h">>,
       <<"s", "s">>,
       <<"u", "u">>,
       <<"a", "a">>,
       <<"g", "g">>,
       <<"cv", "cv">>,
       <<"cp", "cp">>,
       <<"cp/cv", "cp_cv">>,
       <<"w", "w">>,
       <<"Z", "Z">>,
       <<"alfav", "alfav">>,
       <<"kappa", "kappa">>,
       <<"kappas", "kappas">>,
       <<"mu", "mu">>,
       <<"k", "k">>,
       <<"nu", "nu">>,
       <<"Prandt", "Prandt">>,
       <<"alfa", "alfa">>,
       <<"joule", "joule">>,
       <<"deltat", "deltat">>,
       <<"gamma", "gamma">>,
       <<"alfap", "alfap">>,
       <<"betap", "betap">>,
       <<"fi", "fi">>,
       <<"f", "f">>,
       <<"volFlow", "Q">>,
       <<"massFlow", "caudalmasico">>,
       <<"molarFlow", "caudalmolar">>,
       <<"fraction", "fraccion">>,
       <<"massFraction", "fraccion_masica">>,
       <<"massUnitFlow", "caudalunitariomasico">>,
       <<"molarUnitFlow", "caudalunitariomolar">>
    >>

\* ThermoWater.writeStatetoJSON, lines 501-502, as <<key, attr>>
ThermoWaterWrites ==
    <<
       <<"n", "n">>,
       <<"epsilon", "epsilon">>
    >>

\* ThermoAdvanced.writeStatetoJSON, lines 573-593, as <<key, attr>>
ThermoAdvancedWrites ==
    <<
       <<"betas", "betas">>,
       <<"Gruneisen", "Gruneisen">>,
       <<"virialB", "virialB">>,
       <<"virialC", "virialC">>,
       <<"dpdT_rho", "dpdT_rho">>,
       <<"dpdrho_T", "dpdrho_T">>,
       <<"drhodT_P", "drhodT_P">>,
       <<"drhodP_T", "drhodP_T">>,
       <<"dhdT_rho", "dhdT_rho">>,
       <<"dhdP_T", "dhdP_T">>,
       <<"dhdT_P", "dhdT_P">>,
       <<"dhdrho_T", "dhdrho_T">>,
       <<"dhdP_rho", "dhdP_rho">>,
       <<"kt", "kt">>,
       <<"ks", "ks">>,
       <<"Ks", "Ks">>,
       <<"Kt", "Kt">>,
       <<"IntP", "IntP">>,
       <<"invT", "invT">>,
       <<"hInput", "hInput">>,
       <<"epsilon", "epsilon">>
    >>

\* ThermoRefProp.writeStatetoJSON, lines 715-720, as <<key, attr>>
ThermoRefPropWrites ==
    <<
       <<"virialD", "virialD">>,
       <<"virialBa", "virialBa">>,
       <<"virialCa", "virialCa">>,
       <<"dCdt", "dCdt">>,
       <<"dCdt2", "dCdt2">>,
       <<"dBdt", "dBdt">>
    >>

\* Thermo.readStatefromJSON, lines 418-480, one step per statement
ThermoReads ==
    <<
       [kind |-> "get", attr |-> "M", unit |-> "Dimensionless", key |-> "M"],
       [kind |-> "get", attr |-> "v", unit |-> "SpecificVolume", key |-> "v"],
       [kind |-> "inv", attr |-> "rho", unit |-> "Density", key |-> "v"],
       [kind |-> "get", attr |-> "h", unit |-> "Enthalpy", key |-> "h"],
       [kind |-> "get", attr |-> "s", unit |-> "SpecificHeat", key |-> "s"],
       [kind |-> "get", attr |-> "u", unit |-> "Enthalpy", key |-> "u"],
       [kind |-> "get", attr |-> "a", unit |-> "Enthalpy", key |-> "a"],
       [kind |-> "get", attr |-> "g", unit |-> "Enthalpy", key |-> "g"],
       [kind |-> "get", attr |-> "cv", unit |-> "SpecificHeat", key |-> "cv"],
       [kind |-> "get", attr |-> "cp", unit |-> "SpecificHeat", key |-> "cp"],
       [kind |-> "get", attr |-> "cp_cv", unit |-> "Dimensionless", key |-> "cp/cv"],
       [kind |-> "get", attr |-> "w", unit |-> "Speed", key |-> "w"],
       [kind |-> "get", attr |-> "Z", unit |-> "Dimensionless", key |-> "Z"],
       [kind |-> "get", attr |-> "alfav", unit |-> "InvTemperature", key |-> "alfav"],
       [kind |-> "get", attr |-> "kappa", unit |-> "InvPressure", key |-> "kappa"],
       [kind |-> "try", attr |-> "kappas", unit |-> "InvPressure", key |-> "kappas"],
       [kind |-> "get", attr |-> "mu", unit |-> "Viscosity", key |-> "mu"],
       [kind |-> "get", attr |-> "k", unit |-> "ThermalConductivity", key |-> "k"],
       [kind |-> "get", attr |-> "nu", unit |-> "Diffusivity", key |-> "nu"],
       [kind |-> "get", attr |-> "Prandt", unit |-> "Dimensionless", key |-> "Prandt"],
       [kind |-> "get", attr |-> "alfa", unit |-> "Diffusivity", key |-> "alfa"],
       [kind |-> "get", attr |-> "joule", unit |-> "TemperaturePressure", key |-> "joule"],
       [kind |-> "get", attr |-> "deltat", unit |-> "EnthalpyPressure", key |-> "deltat"],
       [kind |-> "get", attr |-> "gamma", unit |-> "Dimensionless", key |-> "gamma"],
       [kind |-> "get", attr |-> "alfap", unit |-> "Dimensionless", key |-> "alfap"],
       [kind |-> "get", attr |-> "betap", unit |-> "Dimensionless", key |-> "betap"],
       [kind |-> "fi_f", attr |-> "fi", unit |-> "Dimensionless", key |-> "fi"],
       [kind |-> "get", attr |-> "Q", unit |-> "VolFlow", key |-> "volFlow"],
       [kind |-> "get", attr |-> "caudalmasico", unit |-> "MassFlow", key |-> "massFlow"],
       [kind |-> "get", attr |-> "caudalmolar", unit |-> "MolarFlow", key |-> "molarFlow"],
       [kind |-> "each", attr |-> "fraccion", unit |-> "Dimensionless", key |-> "fraction"],
       [kind |-> "each", attr |-> "fraccion_masica", unit |-> "Dimensionless", key |-> "massFraction"],
       [kind |-> "each", attr |-> "caudalunitariomasico", unit |-> "MassFlow", key |-> "massUnitFlow"],
       [kind |-> "each", attr |-> "caudalunitariomolar", unit |-> "MolarFlow", key |-> "molarUnitFlow"],
       [kind |-> "divM", attr |-> "rhoM", unit |-> "MolarDensity", key |-> "rho"],
       [kind |-> "divM", attr |-> "hM", unit |-> "MolarEnthalpy", key |-> "h"],
       [kind |-> "divM", attr |-> "sM", unit |-> "MolarSpecificHeat", key |-> "s"],
       [kind |-> "divM", attr |-> "uM", unit |-> "MolarEnthalpy", key |-> "u"],
       [kind |-> "divM", attr |-> "aM", unit |-> "MolarEnthalpy", key |-> "a"],
       [kind |-> "divM", attr |-> "gM", unit |-> "MolarEnthalpy", key |-> "g"],
       [kind |-> "divM", attr |-> "cvM", unit |-> "MolarSpecificHeat", key |-> "cv"],
       [kind |-> "divM", attr |-> "cpM", unit |-> "MolarSpecificHeat", key |-> "cp"]
    >>

\* ThermoWater.readStatefromJSON, lines 507-508, one step per statement
ThermoWaterReads ==
    <<
       [kind |-> "get", attr |-> "epsilon", unit |-> "Dimensionless", key |-> "epsilon"],
       [kind |-> "get", attr |-> "n", unit |-> "Dimensionless", key |-> "n"]
    >>

\* ThermoAdvanced.readStatefromJSON, lines 598-625, one step per statement
ThermoAdvancedReads ==
    <<
       [kind |-> "get", attr |-> "betas", unit |-> "TemperaturePressure", key |-> "betas"],
       [kind |-> "get", attr |-> "Gruneisen", unit |-> "Dimensionless", key |-> "Gruneisen"],
       [kind |-> "virial", attr |-> "virialB", unit |-> "SpecificVolume", key |-> "virialB"],
       [kind |-> "get", attr |-> "dpdT_rho", unit |-> "PressureTemperature", key |-> "dpdT_rho"],
       [kind |-> "get", attr |-> "dpdrho_T", unit |-> "PressureDensity", key |-> "dpdrho_T"],
       [kind |-> "get", attr |-> "drhodT_P", unit |-> "DensityTemperature", key |-> "drhodT_P"],
       [kind |-> "get", attr |-> "drhodP_T", unit |-> "DensityPressure", key |-> "drhodP_T"],
       [kind |-> "get", attr |-> "dhdT_rho", unit |-> "SpecificHeat", key |-> "dhdT_rho"],
       [kind |-> "get", attr |-> "dhdP_T", unit |-> "EnthalpyPressure", key |-> "dhdP_T"],
       [kind |-> "get", attr |-> "dhdT_P", unit |-> "SpecificHeat", key |-> "dhdT_P"],
       [kind |-> "get", attr |-> "dhdrho_T", unit |-> "EnthalpyDensity", key |-> "dhdrho_T"],
       [kind |-> "get", attr |-> "dhdP_rho", unit |-> "EnthalpyPressure", key |-> "dhdP_rho"],
       [kind |-> "get", attr |-> "kt", unit |-> "Dimensionless", key |-> "kt"],
       [kind |-> "get", attr |-> "ks", unit |-> "InvPressure", key |-> "ks"],
       [kind |-> "get", attr |-> "Ks", unit |-> "Pressure", key |-> "Ks"],
       [kind |-> "get", attr |-> "Kt", unit |-> "Pressure", key |-> "Kt"],
       [kind |-> "get", attr |-> "IntP", unit |-> "Pressure", key |-> "IntP"],
       [kind |-> "try", attr |-> "invT", unit |-> "InvTemperature", key |-> "invT"],
       [kind |-> "get", attr |-> "hInput", unit |-> "Enthalpy", key |-> "hInput"],
       [kind |-> "get", attr |-> "epsilon", unit |-> "Dimensionless", key |-> "epsilon"]
    >>

\* ThermoRefProp.readStatefromJSON, lines 725-730, one step per statement
ThermoRefPropReads ==
    <<
       [kind |-> "get", attr |-> "virialD", unit |-> "Dimensionless", key |-> "virialD"],
       [kind |-> "get", attr |-> "virialBa", unit |-> "SpecificVolume", key |-> "virialBa"],
       [kind |-> "get", attr |-> "virialCa", unit |-> "SpecificVolume_square", key |-> "virialCa"],
       [kind |-> "get", attr |-> "dCdt", unit |-> "Dimensionless", key |-> "dCdt"],
       [kind |-> "get", attr |-> "dCdt2", unit |-> "Dimensionless", key |-> "dCdt2"],
       [kind |-> "get", attr |-> "dBdt", unit |-> "Dimensionless", key |-> "dBdt"]
    >>


Writes(c) ==
    CASE c = "Thermo" -> ThermoWrites
      [] c = "ThermoWater" -> ThermoWrites \o ThermoWaterWrites
      [] c = "ThermoAdvanced" -> ThermoWrites \o ThermoAdvancedWrites
      [] c = "ThermoRefProp" -> ThermoWrites \o ThermoAdvancedWrites \o ThermoRefPropWrites

Reads(c) ==
    CASE c = "Thermo" -> ThermoReads
      [] c = "ThermoWater" -> ThermoReads \o ThermoWaterReads
      [] c = "ThermoAdvanced" -> ThermoReads \o ThermoAdvancedReads
      [] c = "ThermoRefProp" -> ThermoReads \o ThermoAdvancedReads \o ThermoRefPropReads

\* every attribute a phase object of some class can have
AttrNames ==
    UNION {Range(propertiesPhase(c))
              \cup {Writes(c)[i][2] : i \in 1..Len(Writes(c))}
              \cup {Reads(c)[i].attr : i \in 1..Len(Reads(c))} : c \in Classes}
        \cup {"virialC", "f"}

EmptyDict == [k \in {} |-> Unset]

\* state[fase] = fluid, with fluid[key] = self.attr for a phase with _bool
writeStatetoJSON(self, c) ==
    IF self.bool
    THEN LET w == Writes(c)
             attrOf(k) == w[CHOOSE i \in 1..Len(w) :
                               w[i][1] = k /\ \A j \in (i + 1)..Len(w) : w[j][1] # k][2]
         IN  [k \in {w[i][1] : i \in 1..Len(w)} |-> self.attrs[attrOf(k)]]
    ELSE EmptyDict

Ok(attrs) == [attrs |-> attrs, exc |-> ""]
Raise(attrs, e) == [attrs |-> attrs, exc |-> e]

\* self.attr = unidades.X(fluid[key]): KeyError without the key, TypeError
\* for float(list)
readPlain(o, fl, st) ==
    IF st.key \notin DOMAIN fl THEN Raise(o, "KeyError")
    ELSE IF fl[st.key].list THEN Raise(o, "TypeError")
    ELSE Ok([o EXCEPT ![st.attr] = Scalar(st.unit, fl[st.key].val[1])])

\* a plausible slip: the optional key read without the try/except
readOptionalUnguarded(o, fl, st) == readPlain(o, fl, st)

\* try: self.attr = unidades.X(fluid[key]) / except KeyError: unidades.X(0)
readOptional(o, fl, st) ==
    IF st.key \notin DOMAIN fl THEN Ok([o EXCEPT ![st.attr] = Scalar(st.unit, Q(0))])
    ELSE readPlain(o, fl, st)

\* a plausible slip: each virial coefficient defaulted on its own
readVirialSeparate(o, fl) ==
    LET b == readOptional(o, fl, [attr |-> "virialB", unit |-> "SpecificVolume", key |-> "virialB"])
    IN  IF b.exc # "" THEN b
        ELSE readOptional(b.attrs, fl,
                          [attr |-> "virialC", unit |-> "SpecificVolume_square", key |-> "virialC"])

\* lines 600-605: virialB and virialC in one try, both zero on KeyError
readVirial(o, fl) ==
    LET b == readPlain(o, fl, [attr |-> "virialB", unit |-> "SpecificVolume", key |-> "virialB"])
        c == readPlain(b.attrs, fl,
                       [attr |-> "virialC", unit |-> "SpecificVolume_square", key |-> "virialC"])
    IN  IF b.exc = "" /\ c.exc = "" THEN c
        ELSE IF "KeyError" \in {b.exc, c.exc} /\ (b.exc = "KeyError" \/ b.exc = "")
        THEN Ok([o EXCEPT !["virialB"] = Scalar("SpecificVolume", Q(0)),
                          !["virialC"] = Scalar("SpecificVolume_square", Q(0))])
        ELSE IF b.exc # "" THEN b ELSE c

\* self.attr = [unidades.X(x) for x in fluid[key]]
readEach(o, fl, st) ==
    IF st.key \notin DOMAIN fl THEN Raise(o, "KeyError")
    ELSE IF ~fl[st.key].list THEN Raise(o, "TypeError")
    ELSE Ok([o EXCEPT ![st.attr] = List(st.unit, fl[st.key].val)])

\* [unidades.X(fluid[key])]: the scalar wrapped in a list of one
readWrapped(o, fl, st) ==
    LET r == readPlain(o, fl, st)
    IN  IF r.exc # "" THEN r
        ELSE Ok([o EXCEPT ![st.attr] = List(st.unit, r.attrs[st.attr].val)])

\* lines 453-458: fi and f as lists, or on TypeError each wrapped in a list
readFugacity(o, fl) ==
    LET fiSt == [attr |-> "fi", unit |-> "Dimensionless", key |-> "fi"]
        fSt == [attr |-> "f", unit |-> "Pressure", key |-> "f"]
        a == readEach(o, fl, fiSt)
        b == readEach(a.attrs, fl, fSt)
        tried == IF a.exc # "" THEN a ELSE b
    IN  IF tried.exc # "TypeError" THEN tried
        ELSE LET c == readWrapped(tried.attrs, fl, fiSt)
             IN  IF c.exc # "" THEN c ELSE readWrapped(c.attrs, fl, fSt)

\* one statement of readStatefromJSON
readStep(o, fl, st) ==
    CASE st.kind = "get" -> readPlain(o, fl, st)
      [] st.kind = "try" -> readOptional(o, fl, st)
      [] st.kind = "virial" -> readVirial(o, fl)
      [] st.kind = "fi_f" -> readFugacity(o, fl)
      [] st.kind = "each" -> readEach(o, fl, st)
      [] st.kind = "inv" ->
            Ok([o EXCEPT ![st.attr] = Scalar(st.unit, RDiv(Q(1), o[st.key].val[1]))])
      [] st.kind = "divM" ->
            Ok([o EXCEPT ![st.attr] =
                   Scalar(st.unit, RDiv(o[st.key].val[1], o["M"].val[1]))])

RECURSIVE readSteps(_, _, _)
readSteps(o, fl, steps) ==
    IF steps = <<>> THEN Ok(o)
    ELSE LET r == readStep(o, fl, Head(steps))
         IN  IF r.exc # "" THEN r ELSE readSteps(r.attrs, fl, Tail(steps))

\* a plausible slip: _bool follows the dict, so that an empty one clears it
readStatefromJSONClearing(self, fl, c) ==
    IF DOMAIN fl = {} THEN [bool |-> FALSE, attrs |-> self.attrs, exc |-> ""]
    ELSE LET r == readSteps(self.attrs, fl, Reads(c))
         IN  [bool |-> TRUE, attrs |-> r.attrs, exc |-> r.exc]

\* self.readStatefromJSON(fluid): nothing for an empty dict
readStatefromJSON(self, fl, c) ==
    IF DOMAIN fl = {} THEN [bool |-> self.bool, attrs |-> self.attrs, exc |-> ""]
    ELSE LET r == readSteps(self.attrs, fl, Reads(c))
         IN  [bool |-> TRUE, attrs |-> r.attrs, exc |-> r.exc]

\* a new object: the class attributes _bool = False, h = s = u = a = g = 0
NewObject ==
    [bool |-> FALSE,
     attrs |-> [a \in AttrNames |->
                   IF a \in {"h", "s", "u", "a", "g"} THEN Scalar("", Q(0)) ELSE Unset]]

MaxMolarMass == 2

\* the keys readStatefromJSON tolerates the absence of
OptionalKeys == {"kappas", "virialB", "virialC", "invT"}

\* the unit class of an attribute of a computed phase: the catalog's, and for
\* the flows of the stream the class the reader uses
unitOfAttr(c, a) ==
    LET d == _dictUnit(c)
    IN  CASE a \in DOMAIN d -> d[a]
          [] a = "M" -> ""
          [] a = "Q" -> "VolFlow"
          [] a \in {"caudalmasico", "caudalunitariomasico"} -> "MassFlow"
          [] a \in {"caudalmolar", "caudalunitariomolar"} -> "MolarFlow"
          [] OTHER -> "Dimensionless"

\* a number that tells the attributes apart: its place in the largest catalog
numberOf(a) ==
    LET l == propertiesKey("ThermoRefProp")
    IN  IF a \in Range(l) THEN CHOOSE i \in 1..Len(l) : l[i] = a ELSE Len(l) + 1

\* a computed phase of class c: every per-phase property of the catalog with
\* the catalog's unit, the molar properties from the specific ones and M as
\* in _cp0 (rhoM = rho/M, hM = h*M), fi and f scalars or lists
ComputedPhase(c, m, fugacityLists) ==
    LET has == Range(propertiesPhase(c)) \cup {Writes(c)[i][2] : i \in 1..Len(Writes(c))}
        num(a) ==
            CASE a = "M" -> Q(m)
              [] a = "rho" -> RDiv(Q(1), Q(numberOf("v")))
              [] a = "rhoM" -> RDiv(RDiv(Q(1), Q(numberOf("v"))), Q(m))
              [] a \in {"hM", "sM", "uM", "aM", "gM", "cvM", "cpM"} ->
                    Q(numberOf(SubSeq(a, 1, Len(a) - 1)) * m)
              [] OTHER -> Q(numberOf(a))
    IN  [bool |-> TRUE,
         attrs |-> [a \in AttrNames |->
            CASE a \notin has -> Unset
              [] a \in {"fi", "f"} ->
                    [unit |-> unitOfAttr(c, a), list |-> fugacityLists, val |-> <<num(a)>>]
              [] a \in {"fraccion", "fraccion_masica", "caudalunitariomasico",
                        "caudalunitariomolar"} -> List(unitOfAttr(c, a), <<num(a)>>)
              [] OTHER -> Scalar(unitOfAttr(c, a), num(a))]]

NoDict == [k \in {"<none>"} |-> Unset]

IdleJSON ==
    /\ jclass = ""
    /\ phase = [bool |-> FALSE, attrs |-> EmptyDict]
    /\ state = EmptyDict
    /\ fluid = NoDict
    /\ restored = [bool |-> FALSE, attrs |-> EmptyDict]
    /\ given = NoDict
    /\ readExc = ""
    /\ jpc = ""

StartJSON ==
    /\ jclass \in Classes
    /\ \/ phase = NewObject
       \/ \E m \in 1..MaxMolarMass, l \in BOOLEAN : phase = ComputedPhase(jclass, m, l)
    /\ state = EmptyDict
    /\ fluid = NoDict
    /\ restored = NewObject
    /\ given = NoDict
    /\ readExc = ""
    /\ jpc = "computed"

\* phase.writeStatetoJSON(state, "fase")
WriteStatetoJSON ==
    /\ jpc = "computed"
    /\ state' = [k \in {"fase"} |-> writeStatetoJSON(phase, jclass)]
    /\ jpc' = "written"
    /\ UNCHANGED <<jclass, phase, fluid, restored, given, readExc>>
    /\ UNCHANGED <<derivVars, catVars, calcVars, simpleVars, recVars, thermoVars, colVars, dragVars, fillVars, dataVars>>

\* the saved state is loaded again: state["fase"], from a file of this version,
\* or of an older one that did not write some of the optional keys yet, or
\* from one that lacks one other key
LoadState ==
    /\ jpc = "written"
    /\ LET d == state["fase"]
       IN  \E missing \in (SUBSET (OptionalKeys \cap DOMAIN d))
                               \cup {{k} : k \in DOMAIN d} :
              fluid' = [x \in DOMAIN d \ missing |-> d[x]]
    /\ jpc' = "loaded"
    /\ UNCHANGED <<jclass, phase, state, restored, given, readExc>>
    /\ UNCHANGED <<derivVars, catVars, calcVars, simpleVars, recVars, thermoVars, colVars, dragVars, fillVars, dataVars>>

\* restored.readStatefromJSON(d), d the loaded dict or an empty one
ReadStatefromJSON ==
    /\ jpc = "loaded"
    /\ \E d \in {fluid, EmptyDict} :
          LET r == readStatefromJSON(restored, d, jclass)
          IN  /\ restored' = [bool |-> r.bool, attrs |-> r.attrs]
              /\ readExc' = r.exc
              /\ given' = d
    /\ UNCHANGED <<jclass, phase, state, fluid, jpc>>
    /\ UNCHANGED <<derivVars, catVars, calcVars, simpleVars, recVars, thermoVars, colVars, dragVars, fillVars, dataVars>>

(***************************************************************************)
(* getMethod, getClassFluid, calcPoint: src/tools/UI_Tables/lib.py 42-127, *)
(* over the fluids of src/lib/mEoS/R11.py and src/lib/mEoS/SF6.py.         *)
(* Temperatures are in mK and pressures in Pa, so that the values of the   *)
(* data files and the 1 Pa margin of calcPoint are integers; Pmax of a     *)
(* record stays in kPa, as calcPoint multiplies it by 1000.                *)
(***************************************************************************)
Fluids == {"R11", "SF6"}

\* Tt = unidades.Temperature(...), the Tmin of every record
Tt(name) == CASE name = "R11" -> 162680 [] name = "SF6" -> 223555

\* the class attribute id
id(name) == CASE name = "R11" -> 217 [] name = "SF6" -> 1

\* the validity window of the records: Tmin, Tmax (mK), Pmax (kPa), rhomax
\* (mmol/l), Pmin (kPa in the file, here the nearest whole Pa)
jacobsen ==
    [Tmin |-> Tt("R11"), Tmax |-> 625000, Pmax |-> 30000, rhomax |-> 12880, Pmin |-> 7]
marx ==
    [Tmin |-> Tt("R11"), Tmax |-> 625000, Pmax |-> 30000, rhomax |-> 13000, Pmin |-> 7]
shortSpan ==
    [Tmin |-> Tt("R11"), Tmax |-> 600000, Pmax |-> 100000, rhomax |-> 13000, Pmin |-> 7]
helmholtz1 ==
    [Tmin |-> Tt("SF6"), Tmax |-> 625000, Pmax |-> 150000, rhomax |-> 14500,
     Pmin |-> 231429]
helmholtz2 ==
    [Tmin |-> Tt("SF6"), Tmax |-> 525000, Pmax |-> 55000, rhomax |-> 12700,
     Pmin |-> 224360]
helmholtz3 ==
    [Tmin |-> Tt("SF6"), Tmax |-> 600000, Pmax |-> 100000, rhomax |-> 12650,
     Pmin |-> 221220]
helmholtz4 ==
    [Tmin |-> Tt("SF6"), Tmax |-> 523000, Pmax |-> 40000, rhomax |-> 13133,
     Pmin |-> 236730]

\* the class attribute eq, a tuple indexed from 0 in the code and from 1 here
eq(name) ==
    CASE name = "R11" -> <<jacobsen, marx, shortSpan>>
      [] name = "SF6" -> <<helmholtz1, helmholtz2, helmholtz3, helmholtz4>>

\* the class attribute _melting: SF6 declares one, R11 none (falsy)
_melting(name) ==
    CASE name = "SF6" -> [truthy |-> TRUE, Tmin |-> Tt("SF6"), Tmax |-> 800000]
      [] name = "R11" -> [truthy |-> FALSE, Tmin |-> 0, Tmax |-> 0]

Methods == {"MEOS", "COOLPROP", "REFPROP"}

\* a plausible slip: REFPROP chosen on its own flag alone
getMethodRefpropAlone(prefs) ==
    IF prefs.refprop THEN "REFPROP"
    ELSE IF prefs.coolprop THEN "COOLPROP"
    ELSE "MEOS"

getMethod(prefs) ==
    IF prefs.coolprop /\ prefs.refprop THEN "REFPROP"
    ELSE IF prefs.coolprop THEN "COOLPROP"
    ELSE "MEOS"

\* a base instance without inputs: status 0, the default kwargs of its class
getClassFluid(prefs, config) ==
    IF prefs.coolprop /\ prefs.refprop
    THEN [cls |-> "RefProp", name |-> config.fluid,
          kwargs |-> [k \in {"ids"} |-> id(config.fluid)], status |-> 0, P |-> 0]
    ELSE IF prefs.coolprop
    THEN [cls |-> "CoolProp", name |-> config.fluid,
          kwargs |-> [k \in {"ids"} |-> id(config.fluid)], status |-> 0, P |-> 0]
    ELSE [cls |-> "MEoS", name |-> config.fluid,
          kwargs |-> [k \in {"eq"} |-> 0], status |-> 0, P |-> 0]

\* dict.update
update(d, o) == [k \in DOMAIN d \cup DOMAIN o |-> IF k \in DOMAIN o THEN o[k] ELSE d[k]]

Min(a, b) == IF a <= b THEN a ELSE b

\* the pressure of the saturated liquid at the triple point as record e of
\* the fluid gives it: the Pmin the record declares
SaturationPressure(name, e) == eq(name)[e + 1].Pmin

\* fluid(T=..., x=0): the instance takes the inputs and solves itself with
\* the record its own kwargs select
call(fl, T) ==
    [fl EXCEPT !.kwargs = update(fl.kwargs, [T |-> T, x |-> 0]),
               !.status = 1,
               !.P = SaturationPressure(fl.name, fl.kwargs["eq"])]

\* fluid.eq of a CoolProp instance: a dict with the limits of the library,
\* taken as those of the first record of the fluid, Pmax in Pa
CoolPropEq(name) ==
    LET r == eq(name)[1]
    IN  [Tmin |-> r.Tmin, Tmax |-> r.Tmax, Pmin |-> r.Pmin, Pmax |-> r.Pmax * 1000]

\* no bound is assigned under REFPROP
Unbound == [bound |-> FALSE, Tmin |-> 0, Tmax |-> 0, Pmin |-> 0, Pmax |-> 0]

\* lines 86-105: Tmin, Tmax, Pmin, Pmax for the method; called is the
\* instance after fluid(T=Tmin, x=0)
limits(method, called, option) ==
    CASE method = "MEOS" ->
            LET r == eq(called.name)[option.eq + 1]
            IN  [bound |-> TRUE, Tmin |-> r.Tmin, Tmax |-> r.Tmax,
                 Pmin |-> called.P, Pmax |-> r.Pmax * 1000]
      [] method = "COOLPROP" ->
            LET r == CoolPropEq(called.name)
            IN  [bound |-> TRUE, Tmin |-> r.Tmin, Tmax |-> r.Tmax,
                 Pmin |-> r.Pmin, Pmax |-> r.Pmax]
      [] method = "REFPROP" -> Unbound

\* a plausible slip: the pre-check without the margin of 1 Pa
preCheckNoMargin(kw, lim) ==
    \/ "T" \in DOMAIN kw /\ (kw["T"] < lim.Tmin \/ kw["T"] > lim.Tmax)
    \/ "P" \in DOMAIN kw /\ (kw["P"] < lim.Pmin \/ kw["P"] > lim.Pmax)

\* lines 107-112: TRUE when the supplied T or P makes calcPoint return None
preCheck(kw, lim) ==
    \/ "T" \in DOMAIN kw /\ (kw["T"] < lim.Tmin \/ kw["T"] > lim.Tmax)
    \/ "P" \in DOMAIN kw /\ (kw["P"] < lim.Pmin - 1 \/ kw["P"] > lim.Pmax + 1)

\* fluid._new(**kw): a new object of the class of the instance, with the ids
\* of the instance, solved; sol is what the solver makes of the inputs
_new(self, kw, sol) ==
    [cls |-> self.cls,
     name |-> self.name,
     kwargs |-> IF "ids" \in DOMAIN self.kwargs
                THEN update(kw, [ids |-> self.kwargs["ids"]]) ELSE kw,
     status |-> sol.status,
     T |-> IF "T" \in DOMAIN kw THEN kw["T"] ELSE sol.T,
     P |-> IF "P" \in DOMAIN kw THEN kw["P"] ELSE sol.P,
     rho |-> sol.rho,
     Pmel |-> sol.Pmel]

\* a plausible slip: the melting pressure taken as the bound without the min
meltingPmaxUnclamped(fluido, Pmax) ==
    IF /\ _melting(fluido.name).truthy
       /\ _melting(fluido.name).Tmin <= fluido.T
       /\ fluido.T <= _melting(fluido.name).Tmax
    THEN fluido.Pmel
    ELSE Pmax

\* lines 119-122: Pmax after the melting curve has been looked at
meltingPmax(fluido, Pmax) ==
    IF /\ _melting(fluido.name).truthy
       /\ _melting(fluido.name).Tmin <= fluido.T
       /\ fluido.T <= _melting(fluido.name).Tmax
    THEN Min(Pmax, fluido.Pmel)
    ELSE Pmax

\* a plausible slip: the final check without the temperature
postCheckPressureOnly(fluido, lim, Pmax) ==
    fluido.P < lim.Pmin - 1 \/ fluido.P > Pmax + 1

\* lines 124-126: TRUE when the solved state makes calcPoint return None
postCheck(fluido, lim, Pmax) ==
    \/ fluido.P < lim.Pmin - 1
    \/ fluido.P > Pmax + 1
    \/ fluido.T < lim.Tmin
    \/ fluido.T > lim.Tmax

NoFluido ==
    [cls |-> "", name |-> "", kwargs |-> [k \in {} |-> 0], status |-> 0,
     T |-> 0, P |-> 0, rho |-> 0, Pmel |-> 0]

NoOutcome ==
    [ret |-> "", exc |-> "", fluido |-> NoFluido, method |-> "", news |-> 0,
     lim |-> Unbound, Pmax |-> 0]

\* the exception of a method that meets an instance of another backend
mismatch(method, fl) ==
    CASE method = "MEOS" /\ fl.cls = "CoolProp" -> "KeyError"
      [] method = "COOLPROP" /\ fl.cls = "MEoS" -> "TypeError"
      [] method \in {"MEOS", "COOLPROP"} /\ fl.cls = "RefProp" -> "AttributeError"
      [] OTHER -> ""

\* calcPoint(fluid, config, **kwargs): what it returns or raises, the locals
\* it ends with, the number of fluid._new calls and the instance afterwards
calcPoint(prefs, fl, config, kw, sol) ==
    LET method == getMethod(prefs)
        option == [eq |-> config.eq, visco |-> config.visco, thermal |-> config.thermal]
        kwargs2 == IF method = "MEOS" THEN update(kw, option) ELSE kw
        called == IF method = "MEOS" /\ fl.cls = "MEoS"
                  THEN call(fl, eq(fl.name)[option.eq + 1].Tmin) ELSE fl
        lim == limits(method, called, option)
        fluido == _new(called, kwargs2, sol)
        Pmax2 == IF method = "MEOS" THEN meltingPmax(fluido, lim.Pmax) ELSE lim.Pmax
        out(ret, exc, f, news, l, pmax, inst) ==
            [outcome |-> [ret |-> ret, exc |-> exc, fluido |-> f, method |-> method,
                          news |-> news, lim |-> l, Pmax |-> pmax],
             instance |-> inst]
    IN  IF mismatch(method, fl) # ""
        THEN out("raise", mismatch(method, fl), NoFluido, 0, Unbound, 0, fl)
        ELSE IF ~lim.bound /\ ({"T", "P"} \cap DOMAIN kwargs2 # {})
        THEN out("raise", "UnboundLocalError", NoFluido, 0, lim, 0, called)
        ELSE IF lim.bound /\ preCheck(kwargs2, lim)
        THEN out("None", "", NoFluido, 0, lim, lim.Pmax, called)
        ELSE IF fluido.status \notin {1, 3}
        THEN out("None", "", fluido, 1, lim, lim.Pmax, called)
        ELSE IF ~lim.bound
        THEN out("raise", "UnboundLocalError", fluido, 1, lim, 0, called)
        ELSE IF postCheck(fluido, lim, Pmax2)
        THEN out("None", "", fluido, 1, lim, Pmax2, called)
        ELSE out("fluido", "", fluido, 1, lim, Pmax2, called)

\* the window the inputs and the solved values are taken around: the limits
\* calcPoint works with, for REFPROP those of the first record
Window(prefs, fl, config) ==
    LET method == getMethod(prefs)
    IN  IF method = "MEOS" /\ fl.cls = "MEoS"
        THEN limits(method, call(fl, Tt(fl.name)),
                    [eq |-> config.eq, visco |-> config.visco, thermal |-> config.thermal])
        ELSE limits("COOLPROP", fl, config)

\* temperatures on and next to the bounds
TGrid(w) == {w.Tmin - 1, w.Tmin, w.Tmax, w.Tmax + 1}

\* pressures on and next to the bounds, and above the lower bound
PGrid(w) == (w.Pmin - 2)..(w.Pmin + 5) \cup (w.Pmax - 1)..(w.Pmax + 2)

\* the keyword inputs: T and P, each supplied or not (the other inputs of a
\* query are left to the solver)
Queries(w) ==
    {kw \in UNION {[D -> TGrid(w) \cup PGrid(w)] : D \in SUBSET {"T", "P"}} :
        /\ ("T" \in DOMAIN kw => kw["T"] \in TGrid(w))
        /\ ("P" \in DOMAIN kw => kw["P"] \in PGrid(w))}

\* what the solver (not part of these files) can make of a query: a status,
\* the T, P and density of the state (a supplied T or P is kept), and the
\* melting pressure at its T, below or above the declared Pmax
Solutions(w, r, kw) ==
    [status : {0, 1, 3},
     T : IF "T" \in DOMAIN kw THEN {kw["T"]} ELSE TGrid(w),
     P : IF "P" \in DOMAIN kw THEN {kw["P"]} ELSE PGrid(w),
     rho : {r.rhomax, r.rhomax + 1},
     Pmel : {w.Pmin + 3, w.Pmax + 3}]

Preferences == [coolprop : BOOLEAN, refprop : BOOLEAN]

Configs ==
    {c \in [fluid : Fluids, eq : 0..3, visco : {0}, thermal : {0}] :
        c.eq < Len(eq(c.fluid))}

NoInstance == [cls |-> "", name |-> "", kwargs |-> [k \in {} |-> 0], status |-> 0, P |-> 0]

IdleCalc ==
    /\ pref = [coolprop |-> FALSE, refprop |-> FALSE]
    /\ conf = [fluid |-> "", eq |-> 0, visco |-> 0, thermal |-> 0]
    /\ instance = NoInstance
    /\ kwargs = [k \in {} |-> 0]
    /\ outcome = NoOutcome
    /\ cpc = ""

StartCalc ==
    /\ pref \in Preferences
    /\ conf \in Configs
    /\ instance = NoInstance
    /\ kwargs = [k \in {} |-> 0]
    /\ outcome = NoOutcome
    /\ cpc = "start"

\* fluid = getClassFluid(conf)
GetClassFluid ==
    /\ cpc = "start"
    /\ instance' = getClassFluid(pref, conf)
    /\ cpc' = "ready"
    /\ UNCHANGED <<pref, conf, kwargs, outcome>>
    /\ UNCHANGED <<derivVars, catVars, jsonVars, simpleVars, recVars, thermoVars, colVars, dragVars, fillVars, dataVars>>

\* the preferences file pychemqtrc is rewritten between the two reads
WritePreferences ==
    /\ cpc = "ready"
    /\ pref' \in Preferences \ {pref}
    /\ UNCHANGED <<conf, instance, kwargs, outcome, cpc>>
    /\ UNCHANGED <<derivVars, catVars, jsonVars, simpleVars, recVars, thermoVars, colVars, dragVars, fillVars, dataVars>>

\* calcPoint(fluid, conf, **kwargs)
CalcPoint ==
    /\ cpc = "ready"
    /\ LET w == Window(pref, instance, conf)
       IN  \E kw \in Queries(w) :
           \E sol \in Solutions(w, eq(conf.fluid)[conf.eq + 1], kw) :
              /\ LET r == calcPoint(pref, instance, conf, kw, sol)
                 IN  /\ outcome' = r.outcome
                     /\ instance' = r.instance
                     /\ kwargs' = kw
    /\ cpc' = "done"
    /\ UNCHANGED <<pref, conf>>
    /\ UNCHANGED <<derivVars, catVars, jsonVars, simpleVars, recVars, thermoVars, colVars, dragVars, fillVars, dataVars>>

(***************************************************************************)
(* SimpleEq(Tc, T, coef): src/lib/utilities.py 264-312.  A result is the   *)
(* number val, or exp(val) where the code calls exp: [exp, val].           *)
(***************************************************************************)
\* x**t for a whole exponent t >= 0 (python: 0**0 is 1)
RECURSIVE RPow(_, _)
RPow(x, t) == IF t = 0 THEN Q(1) ELSE RMul(x, RPow(x, t - 1))

\* zip(a, b): as long as the shorter of the two
zip(a, b) == [i \in 1..(IF Len(a) <= Len(b) THEN Len(a) ELSE Len(b)) |-> <<a[i], b[i]>>]

\* for n, t in pairs: pr += n*Tita**t
RECURSIVE addTerms(_, _, _)
addTerms(pr, Tita, pairs) ==
    IF pairs = <<>> THEN pr
    ELSE addTerms(RAdd(pr, RMul(Q(Head(pairs)[1]), RPow(Tita, Head(pairs)[2]))),
                  Tita, Tail(pairs))

\* the equation forms the code exponentiates
ExpForms == {2, 3}

SimpleEq(Tc, T, coef) ==
    IF {"n", "t"} \subseteq DOMAIN coef
    THEN LET Tita == RSub(Q(1), Rat(T, Tc))
             pr0 == addTerms(Q(0), Tita, zip(coef["n"], coef["t"]))
             pr1 == IF coef["eq"] = 1 THEN RAdd(pr0, Q(1)) ELSE pr0
             pr2 == IF coef["eq"] = 3 THEN RMul(pr1, Rat(Tc, T)) ELSE pr1
         IN  [exc |-> "", exp |-> coef["eq"] \in ExpForms, val |-> pr2]
    ELSE [exc |-> "KeyError", exp |-> FALSE, val |-> Q(0)]

MaxTemp == 2
MaxTerms == 2
MaxExp == 1

\* the forms the ancillary equations of R11 and SF6 declare, and 2
Forms == {1, 2, 3, 5, 6}

SeqsUpTo(S, n) == UNION {[1..k -> S] : k \in 0..n}

\* coefficient dicts: with the keys n and t that SimpleEq reads, or with the
\* keys ao and exp of the data files
Coefs ==
    {[k \in {"eq", ks[1], ks[2]} |->
         IF k = "eq" THEN f ELSE IF k = ks[1] THEN n ELSE t] :
        ks \in {<<"n", "t">>, <<"ao", "exp">>}, f \in Forms,
        n \in SeqsUpTo({-1, 2}, MaxTerms), t \in SeqsUpTo(0..MaxExp, MaxTerms)}

NoSimpleEq == [exc |-> "none", exp |-> FALSE, val |-> Q(0)]

IdleSimpleEq ==
    /\ seArgs = [Tc |-> 0, T |-> 0, coef |-> [k \in {} |-> 0]]
    /\ seResult = NoSimpleEq

StartSimpleEq ==
    /\ seArgs \in [Tc : 1..MaxTemp, T : 1..MaxTemp, coef : Coefs]
    /\ seResult = NoSimpleEq

\* pr = SimpleEq(Tc, T, coef)
CallSimpleEq ==
    /\ seArgs.Tc > 0
    /\ seResult = NoSimpleEq
    /\ seResult' = SimpleEq(seArgs.Tc, seArgs.T, seArgs.coef)
    /\ UNCHANGED seArgs
    /\ UNCHANGED <<derivVars, catVars, jsonVars, calcVars, recVars, thermoVars, colVars, dragVars, fillVars, dataVars>>

(***************************************************************************)
(* The coefficient records of src/lib/mEoS/R11.py 43-151 and               *)
(* src/lib/mEoS/SF6.py 28-175.                                             *)
(***************************************************************************)
\* list * n
Repeat(l, n) == [i \in 1..(Len(l) * n) |-> l[((i - 1) % Len(l)) + 1]]

\* the coefficient arrays of the records and ideal-gas sets of R11, each
\* number as the file writes it
R11_arrays ==
    [k \in {"CP1", "CP2", "jacobsen", "marx", "shortSpan"} |->
     CASE k = "CP1" ->
        [an |-> <<"2.228875e-4">>,
         pow |-> <<"1">>,
         ao_exp |-> <<"1", "2", "1", "2", "1", "2">>,
         exp |-> <<"1561.076", "1218.647", "770.035", "572.634", "502.854",
             "346.746">>,
         ao_hyp |-> <<>>,
         hyp |-> <<>>]
       [] k = "CP2" ->
        [an |-> <<>>,
         pow |-> <<>>,
         ao_exp |-> <<"0.32960961e1", "0.28401126e1", "0.40350474",
             "0.30739271e1">>,
         exp |-> <<"381.63168", "1368.22648", "3435.66931", "689.55053">>,
         ao_hyp |-> <<>>,
         hyp |-> <<>>]
       [] k = "jacobsen" ->
        [nr1 |-> <<"0.125993633881e1", "-0.260818574641e1",
             "0.982122542463e-2", "-0.106085385839e1", "0.122820363510e1",
             "0.118000776439", "-0.698956926463e-3", "-0.355428373358e-1",
             "0.197169579643e-2", "-0.848363012252e-2", "0.417997567653e-2",
             "-0.242772533848e-3", "0.313371368974e-2", "0.396182646586e-5">>,
         d1 |-> <<"1", "1", "1", "2", "2", "3", "3", "4", "4", "5", "5", "5",
             "6", "8">>,
         t1 |-> <<"0.5", "1.5", "5", "1", "1.5", "0", "5", "2", "3", "1", "2",
             "4", "1", "4">>,
         nr2 |-> <<"0.339736319502", "-0.203010634531", "-0.1060178599",
             "0.45156488259", "-0.339265767612", "0.114338523359",
             "0.319537833995e-1", "0.367908259780e-1", "-0.961768948364e-5",
             "0.246717966418e-2", "-0.167030256045e-2", "0.240710110806e-2",
             "0.156214678738e-2", "-0.323352596704e-2">>,
         d2 |-> <<"1", "1", "2", "2", "2", "3", "4", "6", "10", "3", "5", "8",
             "9", "9">>,
         t2 |-> <<"5", "6", "3.5", "5.5", "7.5", "3", "2.5", "5", "1.5", "11",
             "9", "13", "5", "9">>,
         c2 |-> <<"2", "2", "2", "2", "2", "2", "2", "2", "2", "4", "6", "6",
             "6", "6">>,
         gamma2 |-> Repeat(<<"1">>, 14)]
       [] k = "marx" ->
        [nr1 |-> <<"-0.219644325e1", "0.8562148696", "0.185864982e-1",
             "0.2807246052", "-0.8526398864e-1", "0.1090334698e-1">>,
         d1 |-> <<"1", "1", "1", "2", "3", "5">>,
         t1 |-> <<"1.5", "2", "3", "0", "1.5", "1">>,
         nr2 |-> <<"0.4138515982", "-0.3125498519", "0.1545749737",
             "0.1752299625", "0.2295443969e-1", "-0.2094422944e-2",
             "-0.1267942875e-8", "0.797272861e-2", "-0.1520330549",
             "0.6448637628e-1", "0.2046144277e-3", "-0.4100829613e-4",
             "-0.123188575e-1", "0.6681486552e-2", "-0.6742271171e-7">>,
         d2 |-> <<"1", "1", "2", "3", "5", "7", "14", "1", "2", "3", "11",
             "11", "4", "4", "10">>,
         t2 |-> <<"-0.5", "3.5", "-0.5", "1", "-0.5", "2", "4", "8", "8", "8",
             "4", "6", "18", "21", "33">>,
         c2 |-> <<"1", "1", "1", "1", "1", "1", "1", "2", "2", "2", "2", "2",
             "3", "3", "4">>,
         gamma2 |-> Repeat(<<"1">>, 15)]
       [] k = "shortSpan" ->
        [nr1 |-> <<"0.10656383e1", "-0.32495206e1", "0.87823894",
             "0.87611569e-1", "0.29950049e-3">>,
         d1 |-> <<"1", "1", "1", "3", "7">>,
         t1 |-> <<"0.25", "1.25", "1.5", "0.25", "0.875">>,
         nr2 |-> <<"0.42896949", "0.70828452", "-0.17391823e-1",
             "-0.37626521", "0.11605284e-1", "-0.89550567e-1",
             "-0.30063991e-1">>,
         d2 |-> <<"1", "2", "5", "1", "1", "4", "2">>,
         t2 |-> <<"2.375", "2", "2.125", "3.5", "6.5", "4.75", "12.5">>,
         c2 |-> <<"1", "1", "1", "2", "2", "2", "3">>,
         gamma2 |-> Repeat(<<"1">>, 7)]]

\* the coefficient arrays of the records and ideal-gas sets of SF6, each
\* number as the file writes it
SF6_arrays ==
    [k \in {"CP1", "CP2", "CP3", "helmholtz1", "helmholtz2", "helmholtz3", "helmholtz4"} |->
     CASE k = "CP1" ->
        [an |-> <<>>,
         pow |-> <<>>,
         ao_exp |-> <<"3.66118232", "7.87885103", "3.45981679">>,
         exp |-> <<"1.617282065*Tc", "2.747115139*Tc", "4.232907175*Tc">>,
         ao_hyp |-> <<>>,
         hyp |-> <<>>]
       [] k = "CP2" ->
        [an |-> <<>>,
         pow |-> <<>>,
         ao_exp |-> <<"2.2181851010", "-1.0921337374e1", "3.3102497939",
             "17.5189671483", "2.8903523803">>,
         exp |-> <<"1114.38", "925.64", "499.26", "884.9", "1363.93">>,
         ao_hyp |-> <<>>,
         hyp |-> <<>>]
       [] k = "CP3" ->
        [an |-> <<"0.305814e-2/8.3143*146.05", "-0.237654e-5/8.3143*146.05">>,
         pow |-> <<"1", "2">>,
         ao_exp |-> <<>>,
         exp |-> <<>>,
         ao_hyp |-> <<>>,
         hyp |-> <<>>]
       [] k = "helmholtz1" ->
        [nr1 |-> <<".54958259132835", "-.87905033269396", "-.84656969731452",
             ".27692381593529", "-.49864958372345e01", ".48879127058055e01",
             ".36917081634281e-1", ".37030130305087e-3", ".39389132911585e-1",
             ".42477413690006e-3">>,
         d1 |-> <<"1", "1", "1", "2", "2", "2", "3", "3", "4", "6">>,
         t1 |-> <<"0.125", "1.25", "1.875", "0.125", "1.5", "1.625", "1.5",
             "5.625", "0.625", "0.25">>,
         nr2 |-> <<"-.24150013863890e-1", ".59447650642255e-1",
             "-.38302880142267", ".32606800951983", "-.29955940562031e-1",
             "-.86579186671173e-1", ".41600684707562e01",
             "-.41398128855814e01", "-.55842159922714", ".56531382776891",
             ".82612463415545e-2", "-.10200995338080e-1">>,
         d2 |-> <<"1", "2", "2", "2", "3", "6", "2", "2", "4", "4", "2", "2">>,
         t2 |-> <<"6.", "0.25", "4.75", "5.375", "5.875", "2.", "5.875", "6.",
             "5.625", "5.75", "0.", "0.5">>,
         c2 |-> <<"1", "1", "1", "1", "1", "1", "2", "2", "2", "2", "3", "3">>,
         gamma2 |-> Repeat(<<"1">>, 12),
         nr3 |-> <<"-.21662523861406e-1", ".34650943893908e-1",
             "-.28694281385812e-1", ".84007238998053e-2", "-.26969359922498",
             ".90415215646344e01", "-.37233103557977e01",
             "-.27524670823704e04", ".57711861697319e04",
             "-.30234003119748e04", ".22252778435360e07",
             "-.23056065559032e07", ".63918852944475e07",
             "-.60792091415592e07">>,
         d3 |-> <<"1", "3", "4", "1", "1", "4", "3", "4", "4", "4", "1", "1",
             "3", "3">>,
         t3 |-> <<"4", "1", "3", "2", "4", "3", "4", "1", "2", "3", "3", "4",
             "3", "4">>,
         alfa3 |-> <<"10", "10", "10", "10", "11", "25", "30", "30", "30",
             "30", "30", "30", "30", "30">>,
         beta3 |-> <<"150", "150", "150", "150", "225", "300", "350", "350",
             "350", "350", "400", "400", "400", "400">>,
         gamma3 |-> <<"1.13", "1.13", "1.13", "1.16", "1.19", "1.19", "1.16",
             "1.16", "1.16", "1.16", "1.22", "1.22", "1.22", "1.22">>,
         epsilon3 |-> <<"0.85", "0.85", "0.85", "0.85", "1", "1", "1", "1",
             "1", "1", "1", "1", "1", "1">>]
       [] k = "helmholtz2" ->
        [nr1 |-> <<"0.26945570453", "-0.554046585076", "-0.929624636454",
             "0.505661081063", "-0.683495847809", "0.579161832426",
             "-0.122636218956", "-0.260339227668e-1", "0.222201648687e-1",
             "-0.118992341472e-2", "0.292000609763e-2", "-0.243315775571e-2",
             "0.689778297550e-3">>,
         d1 |-> <<"1", "1", "1", "2", "2", "2", "3", "4", "5", "10", "10",
             "10", "10">>,
         t1 |-> <<"0", "1.5", "2", "0", "1", "2", "0", "2", "0", "0.5", "1",
             "1.5", "2">>,
         nr2 |-> <<"-0.147585329235e1", "0.275952303526e1",
             "-0.142721418498e1", "0.598794196648e-1", "0.219991168025e-2",
             "0.746554473361e-2", "0.345233637389e-2", "-0.253226231963e-1",
             "0.433906886402e-1", "-0.249349699078e-1", "0.338560952242e-2",
             "0.539985899700e-3">>,
         d2 |-> <<"2", "2", "2", "3", "7", "7", "9", "4", "4", "4", "6", "4">>,
         t2 |-> <<"3", "4", "5", "5", "1", "5", "1", "9", "14", "24", "24",
             "9">>,
         c2 |-> <<"2", "2", "2", "2", "2", "2", "2", "4", "4", "4", "4", "6">>,
         gamma2 |-> Repeat(<<"1">>, 12)]
       [] k = "helmholtz3" ->
        [nr1 |-> <<"0.12279403e1", "-0.33035623e1", "0.12094019e1",
             "-0.12316", "0.11044657", "0.32952153e-3">>,
         d1 |-> <<"1", "1", "1", "2", "3", "7">>,
         t1 |-> <<"0.25", "1.125", "1.5", "1.375", "0.25", "0.875">>,
         nr2 |-> <<"0.27017629", "-0.62910351e-1", "-0.3182889",
             "-0.99557419e-1", "-0.36909694e-1", "0.19136427e-1">>,
         d2 |-> <<"2", "5", "1", "4", "3", "4">>,
         t2 |-> <<"0.625", "1.75", "3.625", "3.625", "14.5", "12">>,
         c2 |-> <<"1", "1", "2", "2", "3", "3">>,
         gamma2 |-> Repeat(<<"1">>, 7)]
       [] k = "helmholtz4" ->
        [nr1 |-> <<"0.131111896375", "-0.792338803106", "0.580899809209",
             "0.153233600406e1", "-0.485096079094e1", "0.482411603806e1",
             "-0.311285647219e1", "0.442141211276", "0.206313183222",
             "-0.372305169645", "0.443536383059", "-0.476354850910e-1",
             "0.116313319336", "0.570240883234e-1", "-0.152963195118",
             "0.259842094503e-1">>,
         d1 |-> <<"0", "0", "0", "1", "1", "1", "1", "1", "2", "2", "2", "3",
             "3", "4", "4", "5">>,
         t1 |-> <<"3", "4", "5", "0", "1", "2", "3", "4", "0", "1", "2", "0",
             "1", "0", "1", "1">>,
         nr2 |-> <<"-0.131111896375", "0.792338803106", "-0.580899809209",
             "-0.744763581796", "0.204368923925e1", "-0.129335324120e1">>,
         d2 |-> <<"0", "0", "0", "2", "2", "2">>,
         t2 |-> <<"3", "4", "5", "3", "4", "5">>,
         c2 |-> Repeat(<<"2">>, 6),
         gamma2 |-> Repeat(<<"1.32678063">>, 6)]]

arrays(name) == CASE name = "R11" -> R11_arrays [] name = "SF6" -> SF6_arrays

RecordNames == UNION {{<<f, k>> : k \in DOMAIN arrays(f)} : f \in Fluids}

IdleRecords == tables = [k \in {<<"", "">>} |-> <<>>]

StartRecords == tables = [k \in {} |-> <<>>]

\* a record or ideal-gas set of a fluid class is read
ReadRecord ==
    /\ \E key \in RecordNames \ DOMAIN tables :
          tables' = [k \in DOMAIN tables \cup {key} |->
                        IF k = key THEN arrays(key[1])[key[2]] ELSE tables[k]]
    /\ UNCHANGED <<derivVars, catVars, jsonVars, calcVars, simpleVars, thermoVars, colVars, dragVars, fillVars, dataVars>>

(***************************************************************************)
(* The life of a Thermo object: src/lib/thermo.py 42-86.  Thermo itself    *)
(* leaves the hooks cleanOldValues, calculable, calculo empty; "MEoS"      *)
(* stands for a subclass such as R11 that fills them in.                   *)
(***************************************************************************)
ThermoClasses == {"Thermo", "MEoS"}

\* the hooks as a subclass such as MEoS fills them in: cleanOldValues takes
\* the inputs into self.kwargs, calculable is a property that is true with
\* two independent inputs, calculo computes the properties from the inputs
override(hook, self, kw) ==
    CASE hook = "cleanOldValues" -> [self EXCEPT !.kwargs = update(self.kwargs, kw)]
      [] hook = "calculable" -> Cardinality(DOMAIN self.kwargs) >= 2
      [] hook = "calculo" -> [self EXCEPT !.props = self.kwargs]

\* self.cleanOldValues(**kwargs): pass in Thermo
cleanOldValues(self, kw) ==
    IF self.cls = "Thermo" THEN self ELSE override("cleanOldValues", self, kw)

\* the truth of self.calculable: in Thermo a bound method, which is true
calculable(self) ==
    IF self.cls = "Thermo" THEN TRUE ELSE override("calculable", self, <<>>)

\* self.calculo(): pass in Thermo
calculo(self) ==
    IF self.cls = "Thermo" THEN self ELSE override("calculo", self, <<>>)

\* self.__call__(**kwargs)
__call__(self, kw) ==
    LET cleaned == cleanOldValues(self, kw)
    IN  IF calculable(cleaned)
        THEN calculo([cleaned EXCEPT !.status = 1, !.msg = "Solved"])
        ELSE cleaned

\* cls(**kwargs): the class attributes, kwargs a copy of the class's, then
\* __call__
__init__(c, kw) ==
    __call__([cls |-> c, kwargs |-> [k \in {} |-> 0], status |-> 0,
              msg |-> "Unknown variables", props |-> [k \in {} |-> 0]], kw)

MaxCalls == 3
MaxInput == 2

\* keyword inputs: some of T, P, x with a value each
ThermoInputs == UNION {[D -> 1..MaxInput] : D \in SUBSET {"T", "P", "x"}}

NoObject ==
    [cls |-> "", kwargs |-> [k \in {} |-> 0], status |-> 0, msg |-> "",
     props |-> [k \in {} |-> 0]]

IdleThermo ==
    /\ obj = NoObject
    /\ thLog = [calls |-> -1, runs |-> 0, seen |-> {}]

StartThermo ==
    /\ obj = NoObject
    /\ thLog = [calls |-> 0, runs |-> 0, seen |-> {}]

\* obj = cls(**kw)
Construct ==
    /\ obj = NoObject
    /\ thLog.calls = 0
    /\ \E c \in ThermoClasses, kw \in ThermoInputs :
          /\ obj' = __init__(c, kw)
          /\ thLog' = [calls |-> 1,
                       runs |-> IF obj'.status = 1 THEN 1 ELSE 0,
                       seen |-> DOMAIN kw]
    /\ UNCHANGED <<derivVars, catVars, jsonVars, calcVars, simpleVars, recVars, colVars, dragVars, fillVars, dataVars>>

\* obj(**kw)
Call ==
    /\ obj # NoObject
    /\ thLog.calls < MaxCalls
    /\ \E kw \in ThermoInputs :
          /\ obj' = __call__(obj, kw)
          /\ thLog' = [calls |-> thLog.calls + 1,
                       runs |-> thLog.runs + (IF calculable(cleanOldValues(obj, kw))
                                              THEN 1 ELSE 0),
                       seen |-> thLog.seen \cup DOMAIN kw]
    /\ UNCHANGED <<derivVars, catVars, jsonVars, calcVars, simpleVars, recVars, colVars, dragVars, fillVars, dataVars>>

(***************************************************************************)
(* spreadsheetColumn(index): src/lib/utilities.py 228-241.  A code is the  *)
(* sequence of its characters.                                             *)
(***************************************************************************)
\* chr(n) for the codes 64..90: "@" and the capital letters
chr(n) ==
    <<"@", "A", "B", "C", "D", "E", "F", "G", "H", "I", "J", "K", "L", "M",
      "N", "O", "P", "Q", "R", "S", "T", "U", "V", "W", "X", "Y", "Z">>[n - 63]

\* reversed(letters)
reversed(l) == [i \in 1..Len(l) |-> l[Len(l) + 1 - i]]

\* while index: mod = index % 26; index = index // 26; letters += chr(mod + 64)
RECURSIVE columnLoop(_, _)
columnLoop(index, l) ==
    IF index = 0 THEN l
    ELSE columnLoop(index \div 26, Append(l, chr((index % 26) + 64)))

spreadsheetColumn(index) == reversed(columnLoop(index + 1, <<>>))

MaxIndex == 702

NoColumn == <<"">>

IdleColumn == colIndex = -1 /\ letters = NoColumn

StartColumn == colIndex \in 0..MaxIndex /\ letters = NoColumn

CallSpreadsheetColumn ==
    /\ colIndex >= 0
    /\ letters = NoColumn
    /\ letters' = spreadsheetColumn(colIndex)
    /\ UNCHANGED colIndex
    /\ UNCHANGED <<derivVars, catVars, jsonVars, calcVars, simpleVars, recVars, thermoVars, dragVars, fillVars, dataVars>>

(***************************************************************************)
(* The sphere drag correlations: src/lib/drag.py 91-571.  A Reynolds       *)
(* number is an integer count of hundredths, so that the thresholds 0.01   *)
(* and 0.1 are whole; a call gives "Cd", a coefficient, or the name of the *)
(* exception it raises.  Of the arithmetic only what can fail on the grid  *)
(* is kept: a division by Re and a logarithm of Re.                        *)
(***************************************************************************)
\* the number x of the source, in hundredths
h(x) == 100 * x

\* .../Re: ZeroDivisionError for Re = 0
overRe(re) == IF re = 0 THEN "ZeroDivisionError" ELSE "Cd"

\* log10(Re), log(Re): ValueError (math domain error) for Re <= 0
logRe(re) == IF re <= 0 THEN "ValueError" ELSE "Cd"

\* lines 145-159: Eq 22 divides by Re, Eq 23 takes log(Re) first
Barati(re, extended) ==
    IF ~extended /\ re < h(200000) THEN overRe(re)
    ELSE IF re <= h(1000000) THEN logRe(re)
    ELSE "NotImplementedError"

\* lines 214-238: w = log10(Re) before the branches, the last one Re < 6e6
Clift(re) ==
    IF logRe(re) # "Cd" THEN logRe(re)
    ELSE IF re < h(6000000) THEN "Cd"
    ELSE "NotImplementedError"

\* lines 285-286, 341-342, 388-389: if Re <= 0 or Re > 1e6: raise
Ceylan(re) == IF re <= 0 \/ re > h(1000000) THEN "NotImplementedError" ELSE "Cd"
Almedeij(re) == IF re <= 0 \/ re > h(1000000) THEN "NotImplementedError" ELSE "Cd"
Morrison(re) == IF re <= 0 \/ re > h(1000000) THEN "NotImplementedError" ELSE "Cd"

\* lines 441-459: 24/Re for 0 <= Re < 0.1; a negative Re reaches the branch
\* Re < 1; the last branch is Re <= 50000
Morsi(re) ==
    IF 0 <= re /\ re < 10 THEN overRe(re)
    ELSE IF re <= h(50000) THEN "Cd"
    ELSE "NotImplementedError"

\* lines 502-503, 559-560: if Re <= 0 or Re > 3e5: raise
Khan(re, improved) == IF re <= 0 \/ re > h(300000) THEN "NotImplementedError" ELSE "Cd"
Flemmer(re, improved) == IF re <= 0 \/ re > h(300000) THEN "NotImplementedError" ELSE "Cd"

\* _all
_all == {"Barati", "Clift", "Ceylan", "Almedeij", "Morrison", "Morsi", "Khan", "Flemmer"}

\* the correlations with a second, optional argument
Flagged == {"Barati", "Khan", "Flemmer"}

drag(name, re, flag) ==
    CASE name = "Barati" -> Barati(re, flag)
      [] name = "Clift" -> Clift(re)
      [] name = "Ceylan" -> Ceylan(re)
      [] name = "Almedeij" -> Almedeij(re)
      [] name = "Morrison" -> Morrison(re)
      [] name = "Morsi" -> Morsi(re)
      [] name = "Khan" -> Khan(re, flag)
      [] name = "Flemmer" -> Flemmer(re, flag)

\* the Reynolds numbers of the calls: negative, zero, and on and next to
\* each limit the correlations document or test
ReGrid ==
    {-h(1), 0, 1, 10, h(1)} \cup
    UNION {{t - 1, t, t + 1} :
              t \in {h(50000), h(200000), h(300000), h(500000), h(1000000), h(6000000)}}

IdleDrag == correlation = "" /\ Re = 0 /\ dragFlag = FALSE /\ Cd = ""

StartDrag ==
    /\ correlation \in _all
    /\ Re \in ReGrid
    /\ dragFlag \in (IF correlation \in Flagged THEN BOOLEAN ELSE {FALSE})
    /\ Cd = ""

CallDrag ==
    /\ correlation \in _all
    /\ Cd = ""
    /\ Cd' = drag(correlation, Re, dragFlag)
    /\ UNCHANGED <<correlation, Re, dragFlag>>
    /\ UNCHANGED <<derivVars, catVars, jsonVars, calcVars, simpleVars, recVars, thermoVars, colVars, fillVars, dataVars>>

(***************************************************************************)
(* Thermo.fillNone(fase): src/lib/thermo.py 351-366.  x, Tr and Pr are in  *)
(* hundredths; an attribute of the phase object is a text, "" when unset   *)
(* and "<value>" when it holds a number; tr() is taken as returning its    *)
(* source text.                                                            *)
(***************************************************************************)
\* a plausible slip: the test of Tr and Pr made before the test of x
fillTextSuperheatedFirst(self) ==
    IF self.Tr < h(1) /\ self.Pr < h(1) THEN "Superheated"
    ELSE IF self.x = 0 THEN "Subcooled"
    ELSE IF self.Tr = h(1) /\ self.Pr = h(1) THEN "Critic point"
    ELSE IF self.Tr > h(1) /\ self.Pr > h(1) THEN "Supercritical"
    ELSE "Undefined"

\* lines 354-363: txt
fillText(self) ==
    IF self.x = 0 THEN "Subcooled"
    ELSE IF self.Tr < h(1) /\ self.Pr < h(1) THEN "Superheated"
    ELSE IF self.Tr = h(1) /\ self.Pr = h(1) THEN "Critic point"
    ELSE IF self.Tr > h(1) /\ self.Pr > h(1) THEN "Supercritical"
    ELSE "Undefined"

\* fase._bool = False; for key in self.__class__.propertiesPhase():
\* fase.__setattr__(key, txt)
fillNone(self, c, fs) ==
    LET keysOfPhase == Range(propertiesPhase(c))
    IN  [bool |-> FALSE,
         attrs |-> [a \in DOMAIN fs.attrs \cup keysOfPhase |->
                       IF a \in keysOfPhase THEN fillText(self) ELSE fs.attrs[a]]]

\* the attributes a phase object can have before: those of the catalogs,
\* global keys included
PhaseAttrs == UNION {Range(propertiesKey(c)) : c \in Classes}

\* the bulk states: x, Tr and Pr below, on and above 0, 1 and 1
BulkStates == [x : {0, 50, h(1)}, Tr : {50, h(1), 150}, Pr : {50, h(1), 150}]

NoPhase == [bool |-> FALSE, attrs |-> [a \in {} |-> ""]]

IdleFill ==
    /\ fcls = ""
    /\ bulk = [x |-> 0, Tr |-> 0, Pr |-> 0]
    /\ fnull = NoPhase
    /\ fpc = ""

\* the phase object is a new one or one that held a computed phase
StartFill ==
    /\ fcls \in Classes
    /\ bulk \in BulkStates
    /\ \E b \in BOOLEAN :
          fnull = [bool |-> b, attrs |-> [a \in PhaseAttrs |-> IF b THEN "<value>" ELSE ""]]
    /\ fpc = "start"

\* self.fillNone(fase)
FillNone ==
    /\ fpc = "start"
    /\ fnull' = fillNone(bulk, fcls, fnull)
    /\ fpc' = "done"
    /\ UNCHANGED <<fcls, bulk>>
    /\ UNCHANGED <<derivVars, catVars, jsonVars, calcVars, simpleVars, recVars, thermoVars, colVars, dragVars, dataVars>>

(***************************************************************************)
(* _getData(fluid, keys, phase, unit): src/tools/UI_Tables/lib.py 156-206. *)
(* A fluid gives, for the bulk and for each phase, the kind of value its   *)
(* attributes hold: "unidad", "str" (the text of fillNone) or "other"; an  *)
(* entry of the row records the object and key it was read from and how    *)
(* it was converted: by the name of a unit, by "config", or kept as the    *)
(* "text" or the "raw" value.  unit = <<>> stands for None.                *)
(***************************************************************************)
\* a plausible slip: the units counted along the non-empty keys only
unitAtCompact(unit, ks, i) ==
    unit[Cardinality({j \in 1..i : ks[j] # ""})]

\* unit[i], i from enumerate(keys)
unitAt(unit, ks, i) == unit[i]

\* lines 170-176: the bulk value is a str or has the unit and config()
bulkTxt(kind, unit, ks, i) ==
    IF kind = "str" THEN "text"
    ELSE IF unit # <<>> /\ unitAt(unit, ks, i) # "" THEN unitAt(unit, ks, i)
    ELSE "config"

\* lines 182-191, 194-203: a phase value is a str, a unidad, or anything else
phaseTxt(kind, unit, ks, i) ==
    IF kind = "str" THEN "text"
    ELSE IF kind = "unidad"
    THEN IF unit # <<>> /\ unitAt(unit, ks, i) # "" THEN unitAt(unit, ks, i) ELSE "config"
    ELSE "raw"

\* ThermoAdvanced.propertiesPhase(), as a set
phaseKeysOfTables == Range(propertiesPhase("ThermoAdvanced"))

\* the body of the loop for i, key in enumerate(keys), from index i on
RECURSIVE getDataFrom(_, _, _, _, _)
getDataFrom(fl, ks, ph, unit, i) ==
    IF i > Len(ks) THEN <<>>
    ELSE LET key == ks[i]
             one == <<[of |-> "fluid", key |-> key, txt |-> bulkTxt(fl.bulk, unit, ks, i)]>>
             two == <<[of |-> "Liquido", key |-> key, txt |-> phaseTxt(fl.Liquido, unit, ks, i)],
                      [of |-> "Gas", key |-> key, txt |-> phaseTxt(fl.Gas, unit, ks, i)]>>
         IN  (IF key = "" THEN <<>>
              ELSE IF ph /\ key \in phaseKeysOfTables
              THEN one \o two
              ELSE one)
             \o getDataFrom(fl, ks, ph, unit, i + 1)

_getData(fl, ks, ph, unit) == getDataFrom(fl, ks, ph, unit, 1)

MaxKeys == 3

\* the keys asked for: none, two global ones, two per-phase ones
DataKeys == {"", "T", "x", "h", "rho"}

\* the fluids: computed phases, an absent liquid, a gas with a plain value,
\* and texts throughout
DataFluids ==
    {[bulk |-> "unidad", Liquido |-> "unidad", Gas |-> "unidad"],
     [bulk |-> "unidad", Liquido |-> "str", Gas |-> "unidad"],
     [bulk |-> "unidad", Liquido |-> "unidad", Gas |-> "other"],
     [bulk |-> "str", Liquido |-> "str", Gas |-> "str"]}

\* keys, and unit either None or as long as keys, as get_propiedades
\* returns them
DataArgs ==
    {a \in [fluid : DataFluids, keys : SeqsUpTo(DataKeys, MaxKeys), phase : BOOLEAN,
            unit : SeqsUpTo({"", "kJkg"}, MaxKeys)] :
        a.unit = <<>> \/ Len(a.unit) = Len(a.keys)}

IdleData ==
    /\ gdArgs = [fluid |-> [bulk |-> "", Liquido |-> "", Gas |-> ""],
                 keys |-> <<>>, phase |-> FALSE, unit |-> <<>>]
    /\ fila = <<>>
    /\ gpc = ""

StartData == gdArgs \in DataArgs /\ fila = <<>> /\ gpc = "start"

\* fila = _getData(fluid, keys, phase, unit)
GetData ==
    /\ gpc = "start"
    /\ fila' = _getData(gdArgs.fluid, gdArgs.keys, gdArgs.phase, gdArgs.unit)
    /\ gpc' = "done"
    /\ UNCHANGED gdArgs
    /\ UNCHANGED <<derivVars, catVars, jsonVars, calcVars, simpleVars, recVars, thermoVars, colVars, dragVars, fillVars>>

(***************************************************************************)
(* Specifications                                                          *)
(***************************************************************************)
InitDerivative == StartDerivative /\ IdleCatalog /\ IdleJSON /\ IdleCalc /\ IdleSimpleEq /\ IdleRecords /\ IdleThermo /\ IdleColumn /\ IdleDrag /\ IdleFill /\ IdleData
NextDerivative == CallDerivative
SpecDerivative == InitDerivative /\ [][NextDerivative]_vars

InitCatalog == IdleDerivative /\ StartCatalog /\ IdleJSON /\ IdleCalc /\ IdleSimpleEq /\ IdleRecords /\ IdleThermo /\ IdleColumn /\ IdleDrag /\ IdleFill /\ IdleData
NextCatalog ==
    \/ CallProperties
    \/ CallPropertiesName
    \/ CallPropertiesKey
    \/ CallPropertiesUnit
    \/ CallDictUnit
    \/ CallPropertiesGlobal
    \/ CallPropertiesPhase
SpecCatalog == InitCatalog /\ [][NextCatalog]_vars

InitJSON == IdleDerivative /\ IdleCatalog /\ StartJSON /\ IdleCalc /\ IdleSimpleEq /\ IdleRecords /\ IdleThermo /\ IdleColumn /\ IdleDrag /\ IdleFill /\ IdleData
NextJSON ==
    \/ WriteStatetoJSON
    \/ LoadState
    \/ ReadStatefromJSON
SpecJSON == InitJSON /\ [][NextJSON]_vars

InitCalc == IdleDerivative /\ IdleCatalog /\ IdleJSON /\ StartCalc /\ IdleSimpleEq /\ IdleRecords /\ IdleThermo /\ IdleColumn /\ IdleDrag /\ IdleFill /\ IdleData
NextCalc ==
    \/ GetClassFluid
    \/ WritePreferences
    \/ CalcPoint
SpecCalc == InitCalc /\ [][NextCalc]_vars

InitSimpleEq == IdleDerivative /\ IdleCatalog /\ IdleJSON /\ IdleCalc /\ StartSimpleEq /\ IdleRecords /\ IdleThermo /\ IdleColumn /\ IdleDrag /\ IdleFill /\ IdleData
NextSimpleEq == CallSimpleEq
SpecSimpleEq == InitSimpleEq /\ [][NextSimpleEq]_vars

InitRecords == IdleDerivative /\ IdleCatalog /\ IdleJSON /\ IdleCalc /\ IdleSimpleEq /\ StartRecords /\ IdleThermo /\ IdleColumn /\ IdleDrag /\ IdleFill /\ IdleData
NextRecords == ReadRecord
SpecRecords == InitRecords /\ [][NextRecords]_vars

InitThermo == IdleDerivative /\ IdleCatalog /\ IdleJSON /\ IdleCalc /\ IdleSimpleEq /\ IdleRecords /\ StartThermo /\ IdleColumn /\ IdleDrag /\ IdleFill /\ IdleData
NextThermo == Construct \/ Call
SpecThermo == InitThermo /\ [][NextThermo]_vars

InitColumn == IdleDerivative /\ IdleCatalog /\ IdleJSON /\ IdleCalc /\ IdleSimpleEq /\ IdleRecords /\ IdleThermo /\ StartColumn /\ IdleDrag /\ IdleFill /\ IdleData
NextColumn == CallSpreadsheetColumn
SpecColumn == InitColumn /\ [][NextColumn]_vars

InitDrag == IdleDerivative /\ IdleCatalog /\ IdleJSON /\ IdleCalc /\ IdleSimpleEq /\ IdleRecords /\ IdleThermo /\ IdleColumn /\ StartDrag /\ IdleFill /\ IdleData
NextDrag == CallDrag
SpecDrag == InitDrag /\ [][NextDrag]_vars

InitFill == IdleDerivative /\ IdleCatalog /\ IdleJSON /\ IdleCalc /\ IdleSimpleEq /\ IdleRecords /\ IdleThermo /\ IdleColumn /\ IdleDrag /\ StartFill /\ IdleData
NextFill == FillNone
SpecFill == InitFill /\ [][NextFill]_vars

InitData == IdleDerivative /\ IdleCatalog /\ IdleJSON /\ IdleCalc /\ IdleSimpleEq /\ IdleRecords /\ IdleThermo /\ IdleColumn /\ IdleDrag /\ IdleFill /\ StartData
NextData == GetData
SpecData == InitData /\ [][NextData]_vars

(***************************************************************************)
(* Claims about the life of a Thermo object                                *)
(***************************************************************************)
\* C14: once an object has status 1 and msg "Solved" no later call changes
\* its status, msg, inputs or computed properties.
C14_SolvedIsImmutable ==
    [][(obj.status = 1 /\ obj.msg = "Solved") => obj' = obj]_vars

\* C15: an object constructed or called without two independent inputs keeps
\* status 0 and msg "Unknown variables" and calculo() is not run; status 1
\* and msg "Solved" come only with calculable inputs.
C15_SolvedOnlyIfCalculable ==
    (obj # NoObject /\ Cardinality(thLog.seen) < 2) =>
        /\ obj.status = 0
        /\ obj.msg = "Unknown variables"
        /\ thLog.runs = 0

(***************************************************************************)
(* Claims about spreadsheetColumn                                          *)
(***************************************************************************)
Letters == {chr(n) : n \in 65..90}

\* C24: spreadsheetColumn(index) is the spreadsheet letter code of the
\* 0-based index: only the letters A..Z, 0 gives A, 25 gives Z, 26 gives AA,
\* and distinct indices give distinct codes.
C24_LetterCode ==
    (letters # NoColumn) =>
        /\ \A i \in 1..Len(letters) : letters[i] \in Letters
        /\ colIndex = 0 => letters = <<"A">>
        /\ colIndex = 25 => letters = <<"Z">>
        /\ colIndex = 26 => letters = <<"A", "A">>
        /\ \A j \in 0..MaxIndex : j # colIndex => spreadsheetColumn(j) # letters

(***************************************************************************)
(* Claims about the sphere drag correlations                               *)
(***************************************************************************)
\* the documented upper limit of each correlation
Remax(name) ==
    CASE name \in {"Barati", "Ceylan", "Almedeij", "Morrison"} -> h(1000000)
      [] name = "Clift" -> h(6000000)
      [] name = "Morsi" -> h(500000)
      [] name \in {"Khan", "Flemmer"} -> h(300000)

\* C25: each correlation raises NotImplementedError for every Re outside
\* 0 < Re <= Remax and returns a coefficient for every Re inside it; Re <= 0
\* is rejected with NotImplementedError and Re = Remax is accepted.
C25_DocumentedRange ==
    (Cd # "") =>
        IF 0 < Re /\ Re <= Remax(correlation)
        THEN Cd = "Cd"
        ELSE Cd = "NotImplementedError"

(***************************************************************************)
(* Claims about Thermo.fillNone                                            *)
(***************************************************************************)
\* the text the bulk state calls for
ExplanatoryText ==
    CASE bulk.x = 0 -> "Subcooled"
      [] bulk.x # 0 /\ bulk.Tr < h(1) /\ bulk.Pr < h(1) -> "Superheated"
      [] bulk.x # 0 /\ bulk.Tr = h(1) /\ bulk.Pr = h(1) -> "Critic point"
      [] bulk.x # 0 /\ bulk.Tr > h(1) /\ bulk.Pr > h(1) -> "Supercritical"
      [] OTHER -> "Undefined"

\* C23: fillNone(fase) sets fase._bool to False and every key of
\* propertiesPhase() of the class, and no global key, to one text: Subcooled
\* for x = 0 whatever Tr and Pr are, otherwise Superheated for Tr < 1 and
\* Pr < 1, Critic point for Tr = 1 and Pr = 1, Supercritical for Tr > 1 and
\* Pr > 1, and Undefined for every other combination.
C23_FillNone ==
    [][(fpc = "start" /\ fpc' = "done") =>
          /\ ~fnull'.bool
          /\ \A k \in Range(propertiesPhase(fcls)) : fnull'.attrs[k] = ExplanatoryText
          /\ \A k \in Range(propertiesGlobal(fcls)) : fnull'.attrs[k] = fnull.attrs[k]
          /\ ExplanatoryText \in {"Subcooled", "Superheated", "Critic point",
                                  "Supercritical", "Undefined"}]_vars

\* a saturated liquid below the critical point: Subcooled, not Superheated,
\* written over the values of a phase, the global keys kept
C23_Witness ==
    /\ fpc = "done"
    /\ fcls = "ThermoAdvanced"
    /\ bulk.x = 0 /\ bulk.Tr < h(1) /\ bulk.Pr < h(1)
    /\ ~fnull.bool
    /\ fnull.attrs["h"] = "Subcooled"
    /\ fnull.attrs["virialB"] = "Subcooled"
    /\ fnull.attrs["T"] = "<value>"
    /\ fnull.attrs["invT"] = "<value>"

(***************************************************************************)
(* Claims about _getData                                                   *)
(***************************************************************************)
PerPhase(key) == key \in phaseKeysOfTables

\* the number of entries the key at position i of keys contributes
Contributes(i) ==
    LET key == gdArgs.keys[i]
    IN  IF key = "" THEN 0 ELSE IF gdArgs.phase /\ PerPhase(key) THEN 3 ELSE 1

\* the number of entries the keys before position i contribute
RECURSIVE Before(_)
Before(i) == IF i = 1 THEN 0 ELSE Before(i - 1) + Contributes(i - 1)

\* the position in keys of the key entry r of the row belongs to
KeyOf(r) ==
    CHOOSE i \in 1..Len(gdArgs.keys) : Before(i) < r /\ r <= Before(i) + Contributes(i)

\* C22: the row follows the order of keys: every non-empty key contributes
\* its bulk value, followed by the liquid and the gas value when phase is
\* true and the key is in ThermoAdvanced.propertiesPhase(); empty keys
\* contribute nothing and global keys one entry, so the row has (non-empty
\* keys) + 2 * (per-phase keys, with phase true) entries, and the unit
\* applied to an entry is the one at the position of its key in unit.
C22_RowFollowsKeys ==
    (gpc = "done") =>
        LET ks == gdArgs.keys
            nonEmpty == Cardinality({i \in 1..Len(ks) : ks[i] # ""})
            perPhase == Cardinality({i \in 1..Len(ks) : ks[i] # "" /\ PerPhase(ks[i])})
        IN  /\ Len(fila) = nonEmpty + (IF gdArgs.phase THEN 2 * perPhase ELSE 0)
            /\ \A r \in 1..Len(fila) :
                  LET i == KeyOf(r)
                      u == IF gdArgs.unit # <<>> /\ gdArgs.unit[i] # ""
                           THEN gdArgs.unit[i] ELSE "config"
                  IN  /\ fila[r].key = ks[i]
                      /\ fila[r].of = <<"fluid", "Liquido", "Gas">>[r - Before(i)]
                      /\ fila[r].txt \in {u, "text", "raw"}
                      /\ gdArgs.fluid.bulk = "unidad" /\ fila[r].of = "fluid"
                            => fila[r].txt = u

\* an empty key, a per-phase key and a global key, with units for all three
C22_Witness ==
    /\ gpc = "done"
    /\ gdArgs.keys = <<"", "h", "T">>
    /\ gdArgs.unit = <<"kJkg", "", "kJkg">>
    /\ gdArgs.phase
    /\ gdArgs.fluid = [bulk |-> "unidad", Liquido |-> "unidad", Gas |-> "unidad"]
    /\ Len(fila) = 4
    /\ fila[1] = [of |-> "fluid", key |-> "h", txt |-> "config"]
    /\ fila[3] = [of |-> "Gas", key |-> "h", txt |-> "config"]
    /\ fila[4] = [of |-> "fluid", key |-> "T", txt |-> "kJkg"]

(***************************************************************************)
(* Claims about the coefficient records                                    *)
(***************************************************************************)
\* the arrays of r that are among ks are all of one length
SameLength(r, ks) ==
    \A a \in ks \cap DOMAIN r, b \in ks \cap DOMAIN r : Len(r[a]) = Len(r[b])

\* C12: in every record of R11 and SF6 the arrays of each term group
\* (nr1/d1/t1; nr2/d2/t2/c2/gamma2; nr3/d3/t3/alfa3/beta3/gamma3/epsilon3)
\* have equal length, and in every ideal-gas set an/pow, ao_exp/exp and
\* ao_hyp/hyp have equal length.
C12_ArraysAligned ==
    \A key \in DOMAIN tables :
        /\ SameLength(tables[key], {"nr1", "d1", "t1"})
        /\ SameLength(tables[key], {"nr2", "d2", "t2", "c2", "gamma2"})
        /\ SameLength(tables[key],
                      {"nr3", "d3", "t3", "alfa3", "beta3", "gamma3", "epsilon3"})
        /\ SameLength(tables[key], {"an", "pow"})
        /\ SameLength(tables[key], {"ao_exp", "exp"})
        /\ SameLength(tables[key], {"ao_hyp", "hyp"})

(***************************************************************************)
(* Claims about SimpleEq                                                   *)
(***************************************************************************)
\* SimpleEq was called with a dict that has the keys it reads and as many
\* exponents as coefficients
SimpleEqCalled ==
    /\ seResult # NoSimpleEq
    /\ {"n", "t"} \subseteq DOMAIN seArgs.coef
    /\ Len(seArgs.coef["n"]) = Len(seArgs.coef["t"])

\* S, the sum of n_i * theta^t_i with theta = 1 - T/Tc
PowerSum ==
    addTerms(Q(0), RSub(Q(1), Rat(seArgs.T, seArgs.Tc)),
             [i \in 1..Len(seArgs.coef["n"]) |-> <<seArgs.coef["n"][i], seArgs.coef["t"][i]>>])

\* C11: SimpleEq returns 1 + S for form 1, exp(S) for forms 2 and 6 and
\* exp(S*Tc/T) for form 3, and a value for every form in {1, 2, 3, 5, 6}.
C11_SimpleEqForms ==
    SimpleEqCalled =>
        /\ seResult.exc = ""
        /\ seArgs.coef["eq"] = 1 =>
              seResult = [exc |-> "", exp |-> FALSE, val |-> RAdd(Q(1), PowerSum)]
        /\ seArgs.coef["eq"] \in {2, 6} =>
              seResult = [exc |-> "", exp |-> TRUE, val |-> PowerSum]
        /\ seArgs.coef["eq"] = 3 =>
              seResult = [exc |-> "", exp |-> TRUE,
                          val |-> RMul(PowerSum, Rat(seArgs.Tc, seArgs.T))]

(***************************************************************************)
(* Claims about calcPoint                                                  *)
(***************************************************************************)
\* the record option["eq"] selects
ActiveRecord == eq(conf.fluid)[conf.eq + 1]

\* the bounds of the query: under MEOS those of the active record, with Pmax
\* in Pa and Pmin the pressure the instance has after fluid(T=Tmin, x=0);
\* under COOLPROP those of fluid.eq
Bounds ==
    IF outcome.method = "MEOS"
    THEN [Tmin |-> ActiveRecord.Tmin, Tmax |-> ActiveRecord.Tmax,
          Pmin |-> instance.P, Pmax |-> ActiveRecord.Pmax * 1000]
    ELSE CoolPropEq(conf.fluid)

\* calcPoint has returned, a state or None, under MEOS or COOLPROP
Answered == cpc = "done" /\ outcome.ret # "raise" /\ outcome.method # "REFPROP"

RejectedByPreCheck == outcome.ret = "None" /\ outcome.news = 0

SuppliedTOutside ==
    "T" \in DOMAIN kwargs /\ (kwargs["T"] < Bounds.Tmin \/ kwargs["T"] > Bounds.Tmax)

\* relative tolerances one would call small: 0, 1/10, 1/9, 1/8
SmallTolerances == {Q(0)} \cup {Rat(1, d) : d \in 8..10}

Returned == cpc = "done" /\ outcome.ret = "fluido"

TPWithinBounds ==
    /\ Bounds.Tmin <= outcome.fluido.T
    /\ outcome.fluido.T <= Bounds.Tmax
    /\ Bounds.Pmin - 1 <= outcome.fluido.P
    /\ outcome.fluido.P <= Bounds.Pmax + 1

MeltingStage ==
    /\ cpc = "done"
    /\ outcome.method = "MEOS"
    /\ outcome.news = 1
    /\ outcome.fluido.status \in {1, 3}

InMeltingRange ==
    /\ _melting(conf.fluid).truthy
    /\ _melting(conf.fluid).Tmin <= outcome.fluido.T
    /\ outcome.fluido.T <= _melting(conf.fluid).Tmax

EffectivePmax ==
    IF InMeltingRange
    THEN IF outcome.fluido.Pmel < Bounds.Pmax THEN outcome.fluido.Pmel ELSE Bounds.Pmax
    ELSE Bounds.Pmax

C13_FluidUnchanged ==
    [][(cpc = "ready" /\ cpc' = "done") =>
          /\ instance' = instance
          /\ outcome'.ret = "fluido" => outcome'.news = 1]_vars

\* the new object was left with status 0, "Unknown variables": the inputs
\* were not two independent ones
CallerError == outcome.news = 1 /\ outcome.fluido.status = 0

\* what calcPoint reports to the same caller for a temperature below Tmin
OutOfRangeReport ==
    LET w == Window(pref, instance, conf)
        kw == [k \in {"T"} |-> w.Tmin - 1]
        sol == CHOOSE x \in Solutions(w, ActiveRecord, kw) : TRUE
    IN  calcPoint(pref, instance, conf, kw, sol).outcome.ret

\* C16: what calcPoint reports for a wrong number or combination of inputs
\* differs from what it reports for an out-of-range query.
C16_CallerErrorDistinct ==
    (Answered /\ CallerError) => outcome.ret # OutOfRangeReport

\* C17: under MEOS the four bounds calcPoint checks against and the state it
\* computes come from the record option["eq"] selects; Pmin is the one that
\* record declares.
C17_OneRecordPinned ==
    (Answered /\ outcome.method = "MEOS") =>
        /\ outcome.lim.Tmin = ActiveRecord.Tmin
        /\ outcome.lim.Tmax = ActiveRecord.Tmax
        /\ outcome.lim.Pmax = ActiveRecord.Pmax * 1000
        /\ outcome.lim.Pmin = ActiveRecord.Pmin
        /\ outcome.news = 1 => outcome.fluido.kwargs["eq"] = conf.eq

\* C18: a query the pre-check rejects has caused no solve: no fluid._new and
\* no call of the fluid object, which is still unsolved.
C18_PreCheckBeforeAnySolve ==
    (Answered /\ RejectedByPreCheck) => outcome.news = 0 /\ instance.status = 0

\* the method getMethod returns for the preferences a class was chosen with
backend(c) ==
    CASE c = "RefProp" -> "REFPROP"
      [] c = "CoolProp" -> "COOLPROP"
      [] c = "MEoS" -> "MEOS"

\* C19: within one query the class of the instance getClassFluid made and
\* the method calcPoint took belong to the same preference values.
C19_PreferenceSnapshot ==
    cpc = "done" => outcome.method = backend(instance.cls)

\* C20: for each method, with the instance of that method, calcPoint ends
\* by returning a state or None: no bound is compared before it is defined.
C20_UniformContract ==
    (cpc = "done" /\ outcome.method = backend(instance.cls)) =>
        outcome.ret \in {"None", "fluido"}

\* the backend the two flags name: REFPROP for both, COOLPROP for coolprop
\* without refprop, MEOS otherwise
SelectedBackend ==
    CASE pref.coolprop /\ pref.refprop -> "REFPROP"
      [] pref.coolprop /\ ~pref.refprop -> "COOLPROP"
      [] ~pref.coolprop -> "MEOS"

\* C26: getMethod and getClassFluid select the backend by the same rule:
\* for the preferences getClassFluid reads, the class it instantiates is the
\* one getMethod names, and that is the backend the two flags select.
C26_SameBackendRule ==
    [][(cpc = "start" /\ cpc' = "ready") =>
          /\ getMethod(pref) = SelectedBackend
          /\ backend(instance'.cls) = getMethod(pref)]_vars

\* refprop alone: an mEoS instance and the method MEOS
C26_Witness ==
    /\ cpc = "ready"
    /\ pref = [coolprop |-> FALSE, refprop |-> TRUE]
    /\ instance.cls = "MEoS"
    /\ getMethod(pref) = "MEOS"

(***************************************************************************)
(* Claims about writeStatetoJSON / readStatefromJSON                       *)
(***************************************************************************)
\* the dict the phase wrote has been read back whole
RoundTripDone == jpc = "loaded" /\ phase.bool /\ given = state["fase"]

\* C1: for each of the four classes, writeStatetoJSON on a computed phase
\* followed by readStatefromJSON on the dict it wrote reproduces every key of
\* propertiesPhase() with the same value, the same shape and the unit class
\* that properties() declares for the key.
C1_RoundTrip ==
    RoundTripDone =>
        /\ readExc = ""
        /\ \A k \in Range(propertiesPhase(jclass)) :
              /\ restored.attrs[k].val = phase.attrs[k].val
              /\ restored.attrs[k].list = phase.attrs[k].list
              /\ restored.attrs[k].unit = _dictUnit(jclass)[k]

\* the keys of the written dict that the loaded dict lacks
MissingKeys == DOMAIN state["fase"] \ DOMAIN fluid

\* a dict without some of the optional keys, and nothing else missing, was read
OptionalKeysMissing ==
    /\ jpc = "loaded"
    /\ phase.bool
    /\ given = fluid
    /\ MissingKeys # {}
    /\ MissingKeys \subseteq OptionalKeys

\* C10: reading a dict that lacks optional keys does not fail: kappas is 0
\* when "kappas" is absent, virialB and virialC are 0 when the virial keys are
\* absent, invT is 0 when "invT" is absent, and every other attribute is the
\* one a read of the whole dict gives.
C10_OptionalKeysDefaultToZero ==
    OptionalKeysMissing =>
        LET whole == readStatefromJSON(NewObject, state["fase"], jclass)
            virial == {"virialB", "virialC"}
        IN  /\ readExc = ""
            /\ restored.bool
            /\ "kappas" \in MissingKeys =>
                  restored.attrs["kappas"] = Scalar("InvPressure", Q(0))
            /\ virial \subseteq MissingKeys =>
                  /\ restored.attrs["virialB"] = Scalar("SpecificVolume", Q(0))
                  /\ restored.attrs["virialC"] = Scalar("SpecificVolume_square", Q(0))
            /\ "invT" \in MissingKeys =>
                  restored.attrs["invT"] = Scalar("InvTemperature", Q(0))
            /\ \A a \in AttrNames \ (MissingKeys \cup virial) :
                  restored.attrs[a] = whole.attrs[a]
            /\ (virial \cap MissingKeys = {}) =>
                  \A a \in virial : restored.attrs[a] = whole.attrs[a]

C10_Witness ==
    /\ OptionalKeysMissing
    /\ jclass = "ThermoAdvanced"
    /\ MissingKeys = OptionalKeys
    /\ readExc = ""
    /\ restored.attrs["kappas"] = Scalar("InvPressure", Q(0))
    /\ restored.attrs["invT"] = Scalar("InvTemperature", Q(0))
    /\ restored.attrs["h"] = phase.attrs["h"]

\* C27: an absent phase is written as an empty dict, and reading an empty
\* dict changes nothing of the object, _bool included: an object restored
\* from a non-empty dict and then from an empty one keeps _bool and every
\* value of the first restore.
C27_AbsentPhaseIsNoOp ==
    /\ []((jpc \in {"written", "loaded"} /\ ~phase.bool) => state["fase"] = EmptyDict)
    /\ [][(jpc = "loaded" /\ given' = EmptyDict) =>
             (restored' = restored /\ readExc' = "")]_vars

\* restored from the whole dict of a computed phase, then from an empty one
C27_Witness ==
    /\ jpc = "loaded"
    /\ phase.bool
    /\ fluid = state["fase"]
    /\ given = EmptyDict
    /\ readExc = ""
    /\ restored.bool
    /\ restored.attrs["h"] = phase.attrs["h"]
    /\ restored.attrs["v"] = phase.attrs["v"]

\* the loaded dict of a computed phase was read by ThermoAdvanced's reader
AdvancedRead ==
    /\ jpc = "loaded"
    /\ phase.bool
    /\ given = fluid
    /\ jclass \in {"ThermoAdvanced", "ThermoRefProp"}

\* C29: in ThermoAdvanced.readStatefromJSON the two virial coefficients
\* default together: with "virialB" in the dict and "virialC" absent both
\* end up zero, a stored virialB survives only with "virialC" present too,
\* and the absence of any key other than "kappas", "virialB", "virialC" and
\* "invT" makes the restore fail with KeyError.
C29_VirialDefaultTogether ==
    AdvancedRead =>
        LET zeroB == Scalar("SpecificVolume", Q(0))
            zeroC == Scalar("SpecificVolume_square", Q(0))
            stored == state["fase"]["virialB"]
        IN  /\ stored.val # zeroB.val
            /\ (MissingKeys \subseteq OptionalKeys) => readExc = ""
            /\ (MissingKeys \subseteq OptionalKeys /\ "virialC" \in MissingKeys) =>
                  /\ restored.attrs["virialB"] = zeroB
                  /\ restored.attrs["virialC"] = zeroC
            /\ (readExc = "" /\ restored.attrs["virialB"].val = stored.val) =>
                  {"virialB", "virialC"} \subseteq DOMAIN given
            /\ (readExc = "" /\ {"virialB", "virialC"} \subseteq DOMAIN given) =>
                  restored.attrs["virialB"] = Scalar("SpecificVolume", stored.val[1])
            /\ ~(MissingKeys \subseteq OptionalKeys) => readExc = "KeyError"

\* a dict with "virialB" and without "virialC" was read: virialB is zero
C29_Witness ==
    /\ AdvancedRead
    /\ MissingKeys = {"virialC"}
    /\ "virialB" \in DOMAIN given
    /\ readExc = ""
    /\ state["fase"]["virialB"].val # <<Q(0)>>
    /\ restored.attrs["virialB"] = Scalar("SpecificVolume", Q(0))
    /\ restored.attrs["virialC"] = Scalar("SpecificVolume_square", Q(0))

(***************************************************************************)
(* Claims about the property catalogs                                      *)
(***************************************************************************)
\* the catalog a class extends and the list l it extends it by
BaseOf(c) == IF c = "ThermoRefProp" THEN "ThermoAdvanced" ELSE "Thermo"
ExtensionOf(c) ==
    CASE c = "ThermoWater" -> ThermoWaterList
      [] c = "ThermoAdvanced" -> ThermoAdvancedList
      [] c = "ThermoRefProp" -> ThermoRefPropList

KeysOf(l) == {l[i][2] : i \in 1..Len(l)}

\* C8: each extended catalog is the union of the catalog it extends and its
\* extension: its keys are exactly the keys of both, no entry is dropped, no
\* key appears twice, the entries of the catalog it extends keep their
\* relative order, and the lists propertiesName, propertiesKey and
\* propertiesUnit agree with the catalog index by index.
C8_CatalogIsUnion ==
    ("properties" \in done) =>
        /\ \A i, j \in 1..Len(catalog) : catalog[i][2] = catalog[j][2] => i = j
        /\ cls # "Thermo" =>
              LET base == properties(BaseOf(cls))
                  ext == ExtensionOf(cls)
              IN  /\ KeysOf(catalog) = KeysOf(base) \cup KeysOf(ext)
                  /\ Range(catalog) = Range(base) \cup Range(ext)
                  /\ Len(catalog) = Len(base) + Len(ext)
                  /\ SelectSeq(catalog, LAMBDA e : e \in Range(base)) = base
        /\ ("propertiesName" \in done) =>
              /\ Len(names) = Len(catalog)
              /\ \A i \in 1..Len(catalog) : names[i] = catalog[i][1]
        /\ ("propertiesKey" \in done) =>
              /\ Len(keys) = Len(catalog)
              /\ \A i \in 1..Len(catalog) : keys[i] = catalog[i][2]
        /\ ("propertiesUnit" \in done) =>
              /\ Len(units) = Len(catalog)
              /\ \A i \in 1..Len(catalog) : units[i] = catalog[i][3]

\* the catalog of ThermoAdvanced and its three lists have been computed
C8_Witness ==
    /\ cls = "ThermoAdvanced"
    /\ {"properties", "propertiesName", "propertiesKey", "propertiesUnit"} \subseteq done
    /\ Len(catalog) = Len(ThermoList) + Len(ThermoAdvancedList)
    /\ keys[35] = "epsilon"
    /\ units[55] = "TemperaturePressure"

\* C9: for every class the global-only keys and the per-phase keys are
\* disjoint, every global key is a key of the class's catalog (and so has a
\* unit in _dictUnit), and together they are exactly propertiesKey().
C9_GlobalAndPhaseKeysPartition ==
    /\ ({"propertiesGlobal", "propertiesPhase", "propertiesKey"} \subseteq done) =>
          /\ Range(globalKeys) \cap Range(phaseKeys) = {}
          /\ Range(globalKeys) \subseteq Range(keys)
          /\ Range(globalKeys) \cup Range(phaseKeys) = Range(keys)
    /\ ({"propertiesGlobal", "_dictUnit"} \subseteq done) =>
          Range(globalKeys) \subseteq DOMAIN unitOf

\* the key sets of ThermoRefProp have been computed: "cstar" is global,
\* "virialD" is per-phase
C9_Witness ==
    /\ cls = "ThermoRefProp"
    /\ {"propertiesGlobal", "propertiesPhase", "propertiesKey", "_dictUnit"} \subseteq done
    /\ "cstar" \in Range(globalKeys)
    /\ "invT" \in Range(globalKeys)
    /\ "virialD" \in Range(phaseKeys)
    /\ unitOf["cstar"] = "Dimensionless"

\* C28: the catalog of ThermoAdvanced has 75 entries; the 21 entries of its
\* extension are the block at the (0-based) indices 34..54, directly after
\* "joule" and directly before "deltat", in the reverse of the order of
\* their declaration; a later call returns the same catalog, and the keys
\* and units computed by other calls agree with it index by index.
C28_ExtensionBlock ==
    (cls = "ThermoAdvanced" /\ "properties" \in done) =>
        /\ Len(catalog) = 75
        /\ Len(ThermoAdvancedList) = 21
        /\ catalog[34][2] = "joule"
        /\ catalog[56][2] = "deltat"
        /\ \A i \in 1..21 : catalog[34 + i] = ThermoAdvancedList[22 - i]
        /\ catalog[35][2] = "epsilon"
        /\ catalog[55][2] = "betas"
        /\ catalog = properties(cls)
        /\ ("propertiesKey" \in done) =>
              keys = [i \in 1..75 |-> catalog[i][2]]
        /\ ("propertiesUnit" \in done) =>
              units = [i \in 1..75 |-> catalog[i][3]]

\* properties, propertiesKey and propertiesUnit of ThermoAdvanced have been
\* called: N_PROP, KEYS and UNITS
C28_Witness ==
    /\ cls = "ThermoAdvanced"
    /\ {"properties", "propertiesKey", "propertiesUnit"} \subseteq done
    /\ Len(catalog) = 75
    /\ keys[35] = "epsilon" /\ keys[55] = "betas" /\ keys[56] = "deltat"
    /\ units[34] = "TemperaturePressure"

(***************************************************************************)
(* Claims about Thermo.derivative                                          *)
(***************************************************************************)
Called == dCall # NoCall

\* the other factor of the reciprocal law, (dx/dz)_y, on the same phase
Reciprocal == derivative(dCall.x, dCall.z, dCall.y, fase)

\* C5 (as stated): for every z, x, y with x # y both derivative(z, x, y) and
\* derivative(x, z, y) are defined and their product is 1, for any values of
\* v, alfav, kappa, cp, s, P, T.
C5_ReciprocalLawEverywhere ==
    (Called /\ dCall.x # dCall.y) =>
        /\ dResult.exc = ""
        /\ Reciprocal.exc = ""
        /\ RMul(dResult.val, Reciprocal.val) = Q(1)

\* C5 (amended): for x # y, whenever both derivative(z, x, y) and
\* derivative(x, z, y) are defined their product is 1; for z = y the factor
\* derivative(x, z, y) is never defined (ZeroDivisionError), and where the
\* first factor is defined there it is 0.
C5_ReciprocalLaw ==
    (Called /\ dCall.x # dCall.y) =>
        /\ (dResult.exc = "" /\ Reciprocal.exc = "")
              => RMul(dResult.val, Reciprocal.val) = Q(1)
        /\ dCall.z = dCall.y =>
              /\ Reciprocal = ZeroDivisionError
              /\ dResult.exc = "" => dResult.val = Q(0)

\* (dh/ds)_v and (ds/dh)_v are both defined and neither is 1
C5_Witness ==
    /\ dCall = [z |-> "h", x |-> "s", y |-> "v"]
    /\ dResult.exc = ""
    /\ Reciprocal.exc = ""
    /\ dResult.val # Q(1)

\* the two derivatives on the right of the triple-product rule
TripleNum == derivative(dCall.z, dCall.y, dCall.x, fase)
TripleDen == derivative(dCall.x, dCall.y, dCall.z, fase)
TripleDefined == Called /\ dResult.exc = "" /\ TripleNum.exc = "" /\ TripleDen.exc = ""

\* C6 (as stated): for every z, x, y for which the three derivatives are
\* defined, derivative(z, x, y) = - derivative(z, y, x) / derivative(x, y, z).
C6_TripleProductWheneverDefined ==
    TripleDefined =>
        /\ TripleDen.val # Q(0)
        /\ dResult.val = RNeg(RDiv(TripleNum.val, TripleDen.val))

\* C6 (amended): for every z, x, y for which the three derivatives are defined
\* and derivative(x, y, z) is not zero, derivative(z, x, y) =
\* - derivative(z, y, x) / derivative(x, y, z); for z = x (and x # y) the
\* left side is 1 while derivative(x, y, z) is 0, so the quotient is undefined.
C6_TripleProduct ==
    /\ (TripleDefined /\ TripleDen.val # Q(0)) =>
          dResult.val = RNeg(RDiv(TripleNum.val, TripleDen.val))
    /\ (TripleDefined /\ dCall.z = dCall.x) =>
          (dResult.val = Q(1) /\ TripleDen.val = Q(0))

\* (du/ds)_v = - (du/dv)_s / (ds/dv)_u with all three defined and non-zero
C6_Witness ==
    /\ dCall = [z |-> "u", x |-> "s", y |-> "v"]
    /\ TripleDefined
    /\ TripleDen.val # Q(0)
    /\ dResult.val # Q(0)

\* C7: derivative reproduces its own tables: derivative(z, "T", "P") is the
\* constant-P entry dT[z] and derivative(z, "P", "T") is the constant-T entry
\* dP[z], for each of the eight variables z.
C7_ReproducesTables ==
    /\ (Called /\ dCall.x = "T" /\ dCall.y = "P") => dResult = Value(dT(dCall.z, fase))
    /\ (Called /\ dCall.x = "P" /\ dCall.y = "T") => dResult = Value(dP(dCall.z, fase))

\* (da/dT)_P asked of a phase where it is not zero
C7_Witness ==
    /\ dCall = [z |-> "a", x |-> "T", y |-> "P"]
    /\ dResult.exc = ""
    /\ dResult.val # Q(0)
    /\ dResult.val = RSub(RMul(RMul(RNeg(fase.P), fase.v), fase.alfav), fase.s)

\* C30: the degenerate calls of derivative: with x = y the denominator is
\* zero for every z and every state and the call fails with a division by
\* zero; with x # y and a non-zero denominator, z = x gives 1 and z = y
\* gives 0.
C30_DegenerateCases ==
    Called =>
        /\ dCall.x = dCall.y => dResult = ZeroDivisionError
        /\ (dCall.x # dCall.y /\ dResult.exc = "") =>
              /\ dCall.z = dCall.x => dResult.val = Q(1)
              /\ dCall.z = dCall.y => dResult.val = Q(0)

\* (dh/dh)_s asked of a phase where (dh/ds)_h would fail: the result is 1
C30_Witness ==
    /\ dCall = [z |-> "h", x |-> "h", y |-> "s"]
    /\ dResult = Value(Q(1))
    /\ derivative("h", "s", "s", fase) = ZeroDivisionError

====
